---- MODULE Spec2Model ----
(***************************************************************************)
(* Open Horizon AI: the three content generators (tools.py), the           *)
(* dependency context (dependencies.py) and the session orchestrators      *)
(* (agent.py).                                                             *)
(*                                                                         *)
(* Python values.  A str is a sequence of one-character strings, so that   *)
(* split(), lower(), strip(), replace() and the `in` test are computed on  *)
(* the characters.  An Optional value is None (the empty tuple) or         *)
(* Some(v) (the one-element tuple <<v>>).  A dict is a function from its   *)
(* keys.  Fixed labels that the code only stores (list entries, enum       *)
(* members, collection names) are TLA+ strings.                            *)
(***************************************************************************)
EXTENDS Integers, Sequences, FiniteSets, TLC

VARIABLES call

vars == <<call>>

----------------------------------------------------------------------------
\* Bounds of the model.

\* word_limit ranges over None and -MaxNegLimit..MaxWordLimit
MaxWordLimit == 90
MaxNegLimit == 1

\* tool calls the language model makes during one agent run
MaxAgentToolCalls == 1

\* how often cleanup() is called on a dependency context used on its own
MaxCleanups == 2

\* the largest word_count passed to the constructor of ApplicationSection
MaxWordCount == 10

----------------------------------------------------------------------------
\* Python values and str methods.

None == <<>>
Some(v) == <<v>>
IsNone(o) == o = <<>>
Val(o) == o[1]

Min(a, b) == IF a <= b THEN a ELSE b
Max(a, b) == IF a >= b THEN a ELSE b

\* the empty dict
EmptyDict == [k \in {} |-> None]

\* dict.get(key, default)
DictGet(d, key, default) == IF key \in DOMAIN d THEN d[key] ELSE default

\* the characters str.split() and str.strip() treat as whitespace
WhitespaceChars == {" ", "\n", "\t", "\r"}

IsSpace(c) == c \in WhitespaceChars

UpperCase == <<
            "A","B","C","D","E","F","G","H","I","J","K","L","M","N","O","P","Q","R","S","T","U","V","W","X",
            "Y","Z">>
LowerCase == <<
            "a","b","c","d","e","f","g","h","i","j","k","l","m","n","o","p","q","r","s","t","u","v","w","x",
            "y","z">>

\* the lower-case letter of each upper-case letter
LowerOf == [c \in {UpperCase[i] : i \in 1..26} |->
               LowerCase[CHOOSE i \in 1..26 : UpperCase[i] = c]]

LowerChar(c) == IF c \in DOMAIN LowerOf THEN LowerOf[c] ELSE c

\* str.lower()
Lower(s) == SubSeq([i \in 1..Len(s) |-> LowerChar(s[i])], 1, Len(s))

\* sub in s
Contains(sub, s) ==
    \/ sub = <<>>
    \/ \E i \in 1..(Len(s) - Len(sub) + 1) :
           s[i] = sub[1] /\ SubSeq(s, i, i + Len(sub) - 1) = sub

\* str.endswith(suffix)
EndsWith(s, suffix) ==
    /\ Len(s) >= Len(suffix)
    /\ SubSeq(s, Len(s) - Len(suffix) + 1, Len(s)) = suffix

\* the first index >= i of s that is not whitespace, Len(s)+1 if there is none
NextNonSpace(s, i) ==
    CHOOSE j \in i..(Len(s) + 1) :
        /\ j = Len(s) + 1 \/ ~IsSpace(s[j])
        /\ \A k \in i..(j - 1) : IsSpace(s[k])

\* the indices of s, in order
Indices(s) == SubSeq([i \in 1..Len(s) |-> i], 1, Len(s))

\* the indices where a maximal run of non-whitespace characters of s starts
RunStarts(s) ==
    LET IsStart(i) == ~IsSpace(s[i]) /\ (i = 1 \/ IsSpace(s[i - 1]))
    IN  SelectSeq(Indices(s), IsStart)

\* the indices where a maximal run of non-whitespace characters of s ends
RunEnds(s) ==
    LET IsEnd(i) == ~IsSpace(s[i]) /\ (i = Len(s) \/ IsSpace(s[i + 1]))
    IN  SelectSeq(Indices(s), IsEnd)

\* str.split(): the maximal runs of non-whitespace characters, in order
Split(s) ==
    LET starts == RunStarts(s)
        ends == RunEnds(s)
    IN  SubSeq([k \in 1..Len(starts) |-> SubSeq(s, starts[k], ends[k])], 1, Len(starts))

\* str.strip()
Strip(s) ==
    LET first == NextNonSpace(s, 1)
    IN  IF first > Len(s) THEN <<>>
        ELSE LET back == CHOOSE k \in 0..(Len(s) - 1) :
                             /\ ~IsSpace(s[Len(s) - k])
                             /\ \A m \in 0..(k - 1) : IsSpace(s[Len(s) - m])
             IN  SubSeq(s, first, Len(s) - back)

RECURSIVE JoinRange(_, _, _, _)
JoinRange(sep, words, lo, hi) ==
    IF lo > hi THEN <<>>
    ELSE IF lo = hi THEN words[lo]
    ELSE LET mid == (lo + hi) \div 2
         IN  JoinRange(sep, words, lo, mid) \o sep \o JoinRange(sep, words, mid + 1, hi)

\* sep.join(words)
Join(sep, words) == JoinRange(sep, words, 1, Len(words))

\* seq[:n]
SliceTo(seq, n) ==
    IF n >= 0 THEN SubSeq(seq, 1, Min(n, Len(seq)))
    ELSE SubSeq(seq, 1, Max(0, Len(seq) + n))

RECURSIVE Replace(_, _, _)
\* str.replace(old, new) for a non-empty old
Replace(s, old, new) ==
    IF ~Contains(old, s) THEN s
    ELSE LET i == CHOOSE k \in 1..(Len(s) - Len(old) + 1) :
                      /\ SubSeq(s, k, k + Len(old) - 1) = old
                      /\ \A j \in 1..(k - 1) : SubSeq(s, j, j + Len(old) - 1) # old
         IN  SubSeq(s, 1, i - 1) \o new
                 \o Replace(SubSeq(s, i + Len(old), Len(s)), old, new)

\* any(word in text for word in words)
AnyIn(words, text) == \E w \in words : Contains(w, text)

\* str(e) of the AttributeError raised by None.<attr>
NoneAttributeError(attr) ==
    <<
      "'","N","o","n","e","T","y","p","e","'"," ","o","b","j","e","c","t"," ","h","a","s"," ","n","o",
      " ","a","t","t","r","i","b","u","t","e"," ","'">> \o attr \o <<"'">>

----------------------------------------------------------------------------
\* tools.py: generate_application_section

\* tools.py 262-270: the f-string, stripped
project_description_template(project_title, focus_area, target_audience) ==
    Strip(
        <<"\n">>
        \o project_title
        \o <<
            " ","a","d","d","r","e","s","s","e","s"," ","t","h","e"," ","c","r","i","t","i","c","a","l"," ",
            "n","e","e","d"," ","f","o","r"," ">>
        \o Lower(focus_area)
        \o <<" ","d","e","v","e","l","o","p","m","e","n","t"," ","a","m","o","n","g"," ">>
        \o Lower(target_audience)
        \o <<
            " ","a","c","r","o","s","s"," ","E","u","r","o","p","e","."," ","\n","\n","O","u","r"," ","p",
            "r","o","j","e","c","t"," ","r","e","c","o","g","n","i","z","e","s"," ","t","h","a","t"," ","t",
            "r","a","d","i","t","i","o","n","a","l"," ","a","p","p","r","o","a","c","h","e","s"," ","t","o",
            " ","y","o","u","t","h"," ","e","n","g","a","g","e","m","e","n","t"," ","o","f","t","e","n"," ",
            "f","a","i","l"," ","t","o"," ","c","a","p","t","u","r","e"," ","t","h","e"," ","d","i","v","e",
            "r","s","e"," ","n","e","e","d","s"," ","a","n","d"," ","l","e","a","r","n","i","n","g"," ","s",
            "t","y","l","e","s"," ","o","f"," ","t","o","d","a","y","'","s"," ","g","e","n","e","r","a","t",
            "i","o","n","."," ","T","h","r","o","u","g","h"," ","i","n","n","o","v","a","t","i","v","e"," ",
            "m","e","t","h","o","d","o","l","o","g","i","e","s"," ","a","n","d"," ","c","r","o","s","s","-",
            "b","o","r","d","e","r"," ","c","o","l","l","a","b","o","r","a","t","i","o","n",","," ","w","e",
            " ","w","i","l","l"," ","c","r","e","a","t","e"," ","s","u","s","t","a","i","n","a","b","l","e",
            " ","p","a","t","h","w","a","y","s"," ","f","o","r"," ","p","e","r","s","o","n","a","l"," ","a",
            "n","d"," ","p","r","o","f","e","s","s","i","o","n","a","l"," ","d","e","v","e","l","o","p","m",
            "e","n","t",".","\n","\n","T","h","e"," ","p","r","o","j","e","c","t"," ","b","r","i","n","g",
            "s"," ","t","o","g","e","t","h","e","r"," ","p","a","r","t","n","e","r","s"," ","f","r","o","m",
            " ","m","u","l","t","i","p","l","e"," ","E","u","r","o","p","e","a","n"," ","c","o","u","n","t",
            "r","i","e","s"," ","t","o"," ","s","h","a","r","e"," ","b","e","s","t"," ","p","r","a","c","t",
            "i","c","e","s",","," ","d","e","v","e","l","o","p"," ","n","e","w"," ","a","p","p","r","o","a",
            "c","h","e","s",","," ","a","n","d"," ","c","r","e","a","t","e"," ","l","a","s","t","i","n","g",
            " ","n","e","t","w","o","r","k","s"," ","t","h","a","t"," ","e","x","t","e","n","d"," ","b","e",
            "y","o","n","d"," ","t","h","e"," ","p","r","o","j","e","c","t"," ","t","i","m","e","l","i","n",
            "e","."," ","O","u","r"," ","c","o","n","s","o","r","t","i","u","m"," ","c","o","m","b","i","n",
            "e","s"," ","g","r","a","s","s","r","o","o","t","s"," ","e","x","p","e","r","i","e","n","c","e",
            " ","w","i","t","h"," ","a","c","a","d","e","m","i","c"," ","r","i","g","o","r",","," ","e","n",
            "s","u","r","i","n","g"," ","b","o","t","h"," ","p","r","a","c","t","i","c","a","l"," ","r","e",
            "l","e","v","a","n","c","e"," ","a","n","d"," ","e","v","i","d","e","n","c","e","-","b","a","s",
            "e","d"," ","o","u","t","c","o","m","e","s",".","\n","\n","K","e","y"," ","i","n","n","o","v",
            "a","t","i","o","n"," ","e","l","e","m","e","n","t","s"," ","i","n","c","l","u","d","e"," ","d",
            "i","g","i","t","a","l"," ","t","o","o","l","s"," ","i","n","t","e","g","r","a","t","i","o","n",
            ","," ","p","e","e","r","-","t","o","-","p","e","e","r"," ","l","e","a","r","n","i","n","g"," ",
            "m","e","t","h","o","d","o","l","o","g","i","e","s",","," ","a","n","d"," ","c","o","m","m","u",
            "n","i","t","y","-","b","a","s","e","d"," ","a","c","t","i","o","n"," ","p","r","o","j","e","c",
            "t","s"," ","t","h","a","t"," ","c","r","e","a","t","e"," ","r","e","a","l","-","w","o","r","l",
            "d"," ","i","m","p","a","c","t"," ","w","h","i","l","e"," ","d","e","v","e","l","o","p","i","n",
            "g"," ","p","a","r","t","i","c","i","p","a","n","t","s","'"," ","c","o","m","p","e","t","e","n",
            "c","i","e","s",".","\n">>)

\* tools.py 272-282: the f-string, stripped
methodology_template(focus_area) ==
    Strip(
        <<
          "\n","O","u","r"," ","m","e","t","h","o","d","o","l","o","g","y"," ","i","s"," ","b","u","i",
          "l","t"," ","o","n"," ","t","h","r","e","e"," ","p","i","l","l","a","r","s",":"," ","p","a","r",
          "t","i","c","i","p","a","t","o","r","y"," ","l","e","a","r","n","i","n","g",","," ","d","i","g",
          "i","t","a","l"," ","i","n","n","o","v","a","t","i","o","n",","," ","a","n","d"," ","c","r","o",
          "s","s","-","c","u","l","t","u","r","a","l"," ","e","x","c","h","a","n","g","e",".","\n","\n",
          "*","*","P","a","r","t","i","c","i","p","a","t","o","r","y"," ","L","e","a","r","n","i","n","g",
          "*","*",":"," ","W","e"," ","e","m","p","l","o","y"," ","n","o","n","-","f","o","r","m","a","l",
          " ","e","d","u","c","a","t","i","o","n"," ","t","e","c","h","n","i","q","u","e","s"," ","t","h",
          "a","t"," ","p","l","a","c","e"," ","p","a","r","t","i","c","i","p","a","n","t","s"," ","a","t",
          " ","t","h","e"," ","c","e","n","t","e","r"," ","o","f"," ","t","h","e","i","r"," ","l","e","a",
          "r","n","i","n","g"," ","j","o","u","r","n","e","y","."," ","T","h","r","o","u","g","h"," ","w",
          "o","r","k","s","h","o","p","s",","," ","p","e","e","r"," ","m","e","n","t","o","r","i","n","g",
          ","," ","a","n","d"," ","c","o","l","l","a","b","o","r","a","t","i","v","e"," ","p","r","o","j",
          "e","c","t","s",","," ","p","a","r","t","i","c","i","p","a","n","t","s"," ","d","e","v","e","l",
          "o","p"," ","b","o","t","h"," ","h","a","r","d"," ","a","n","d"," ","s","o","f","t"," ","s","k",
          "i","l","l","s"," ","w","h","i","l","e"," ","b","u","i","l","d","i","n","g"," ","c","o","n","f",
          "i","d","e","n","c","e"," ","a","n","d"," ","i","n","t","e","r","c","u","l","t","u","r","a","l",
          " ","c","o","m","p","e","t","e","n","c","e",".","\n","\n","*","*","D","i","g","i","t","a","l",
          " ","I","n","n","o","v","a","t","i","o","n","*","*",":"," ","L","e","v","e","r","a","g","i","n",
          "g"," ","t","e","c","h","n","o","l","o","g","y"," ","t","o"," ","e","n","h","a","n","c","e"," ",
          "a","c","c","e","s","s","i","b","i","l","i","t","y"," ","a","n","d"," ","e","n","g","a","g","e",
          "m","e","n","t",","," ","w","e"," ","i","n","t","e","g","r","a","t","e"," ","d","i","g","i","t",
          "a","l"," ","t","o","o","l","s"," ","t","h","a","t"," ","s","u","p","p","o","r","t"," ","p","e",
          "r","s","o","n","a","l","i","z","e","d"," ","l","e","a","r","n","i","n","g"," ","p","a","t","h",
          "s"," ","a","n","d"," ","e","n","a","b","l","e"," ","v","i","r","t","u","a","l"," ","c","o","l",
          "l","a","b","o","r","a","t","i","o","n"," ","b","e","t","w","e","e","n"," ","p","a","r","t","i",
          "c","i","p","a","n","t","s"," ","f","r","o","m"," ","d","i","f","f","e","r","e","n","t"," ","c",
          "o","u","n","t","r","i","e","s",".","\n","\n","*","*","C","r","o","s","s","-","C","u","l","t",
          "u","r","a","l"," ","E","x","c","h","a","n","g","e","*","*",":"," ","P","h","y","s","i","c","a",
          "l"," ","a","n","d"," ","v","i","r","t","u","a","l"," ","m","o","b","i","l","i","t","y"," ","o",
          "p","p","o","r","t","u","n","i","t","i","e","s"," ","a","l","l","o","w"," ","p","a","r","t","i",
          "c","i","p","a","n","t","s"," ","t","o"," ","e","x","p","e","r","i","e","n","c","e"," ","d","i",
          "f","f","e","r","e","n","t"," ","c","u","l","t","u","r","a","l"," ","a","p","p","r","o","a","c",
          "h","e","s"," ","t","o"," ">>
        \o Lower(focus_area)
        \o <<
            ","," ","f","o","s","t","e","r","i","n","g"," ","E","u","r","o","p","e","a","n"," ","i","d","e",
            "n","t","i","t","y"," ","a","n","d"," ","g","l","o","b","a","l"," ","c","i","t","i","z","e","n",
            "s","h","i","p",".","\n","\n","Q","u","a","l","i","t","y"," ","a","s","s","u","r","a","n","c",
            "e"," ","i","s"," ","e","n","s","u","r","e","d"," ","t","h","r","o","u","g","h"," ","r","e","g",
            "u","l","a","r"," ","e","v","a","l","u","a","t","i","o","n"," ","c","y","c","l","e","s",","," ",
            "p","a","r","t","i","c","i","p","a","n","t"," ","f","e","e","d","b","a","c","k"," ","i","n","t",
            "e","g","r","a","t","i","o","n",","," ","a","n","d"," ","e","x","t","e","r","n","a","l"," ","e",
            "x","p","e","r","t"," ","r","e","v","i","e","w"," ","a","t"," ","k","e","y"," ","p","r","o","j",
            "e","c","t"," ","m","i","l","e","s","t","o","n","e","s",".","\n">>)

\* tools.py 284-294: the f-string, stripped
impact_template(project_title, focus_area) ==
    Strip(
        <<"\n">>
        \o project_title
        \o <<
            " ","w","i","l","l"," ","c","r","e","a","t","e"," ","m","u","l","t","i","-","l","e","v","e","l",
            " ","i","m","p","a","c","t"," ","a","c","r","o","s","s"," ","i","n","d","i","v","i","d","u","a",
            "l",","," ","o","r","g","a","n","i","z","a","t","i","o","n","a","l",","," ","a","n","d"," ","s",
            "y","s","t","e","m","i","c"," ","d","i","m","e","n","s","i","o","n","s",".","\n","\n","*","*",
            "I","n","d","i","v","i","d","u","a","l"," ","I","m","p","a","c","t","*","*",":"," ","P","a","r",
            "t","i","c","i","p","a","n","t","s"," ","w","i","l","l"," ","d","e","v","e","l","o","p"," ","e",
            "n","h","a","n","c","e","d"," ","c","o","m","p","e","t","e","n","c","i","e","s"," ","i","n"," ">>
        \o Lower(focus_area)
        \o <<
            ","," ","i","n","c","r","e","a","s","e","d"," ","c","u","l","t","u","r","a","l"," ","a","w","a",
            "r","e","n","e","s","s",","," ","a","n","d"," ","s","t","r","o","n","g","e","r"," ","E","u","r",
            "o","p","e","a","n"," ","i","d","e","n","t","i","t","y","."," ","W","e"," ","a","n","t","i","c",
            "i","p","a","t","e"," ","t","h","a","t"," ","8","5","%"," ","o","f"," ","p","a","r","t","i","c",
            "i","p","a","n","t","s"," ","w","i","l","l"," ","r","e","p","o","r","t"," ","i","n","c","r","e",
            "a","s","e","d"," ","c","o","n","f","i","d","e","n","c","e"," ","a","n","d"," ","7","0","%"," ",
            "w","i","l","l"," ","p","u","r","s","u","e"," ","f","u","r","t","h","e","r"," ","e","d","u","c",
            "a","t","i","o","n"," ","o","r"," ","e","m","p","l","o","y","m","e","n","t"," ","o","p","p","o",
            "r","t","u","n","i","t","i","e","s"," ","d","i","r","e","c","t","l","y"," ","r","e","l","a","t",
            "e","d"," ","t","o"," ","p","r","o","j","e","c","t"," ","t","h","e","m","e","s",".","\n","\n",
            "*","*","O","r","g","a","n","i","z","a","t","i","o","n","a","l"," ","I","m","p","a","c","t","*",
            "*",":"," ","P","a","r","t","n","e","r"," ","o","r","g","a","n","i","z","a","t","i","o","n","s",
            " ","w","i","l","l"," ","b","e","n","e","f","i","t"," ","f","r","o","m"," ","s","t","r","e","n",
            "g","t","h","e","n","e","d"," ","c","a","p","a","c","i","t","y",","," ","n","e","w"," ","m","e",
            "t","h","o","d","o","l","o","g","i","e","s",","," ","a","n","d"," ","e","x","p","a","n","d","e",
            "d"," ","E","u","r","o","p","e","a","n"," ","n","e","t","w","o","r","k","s","."," ","T","h","e",
            " ","p","r","o","j","e","c","t"," ","w","i","l","l"," ","r","e","s","u","l","t"," ","i","n"," ",
            "u","p","d","a","t","e","d"," ","t","r","a","i","n","i","n","g"," ","c","u","r","r","i","c","u",
            "l","a"," ","a","n","d"," ","s","u","s","t","a","i","n","a","b","l","e"," ","p","a","r","t","n",
            "e","r","s","h","i","p"," ","a","g","r","e","e","m","e","n","t","s"," ","f","o","r"," ","f","u",
            "t","u","r","e"," ","c","o","l","l","a","b","o","r","a","t","i","o","n",".","\n","\n","*","*",
            "S","y","s","t","e","m","i","c"," ","I","m","p","a","c","t","*","*",":"," ","P","r","o","j","e",
            "c","t"," ","o","u","t","c","o","m","e","s"," ","w","i","l","l"," ","c","o","n","t","r","i","b",
            "u","t","e"," ","t","o"," ","E","u","r","o","p","e","a","n"," ","p","o","l","i","c","y"," ","d",
            "i","s","c","u","s","s","i","o","n","s"," ","a","r","o","u","n","d"," ">>
        \o Lower(focus_area)
        \o <<
            " ","a","n","d"," ","y","o","u","t","h"," ","d","e","v","e","l","o","p","m","e","n","t","."," ",
            "D","i","s","s","e","m","i","n","a","t","i","o","n"," ","a","c","t","i","v","i","t","i","e","s",
            " ","w","i","l","l"," ","r","e","a","c","h"," ","a","n"," ","e","s","t","i","m","a","t","e","d",
            " ","1","0",",","0","0","0"," ","s","t","a","k","e","h","o","l","d","e","r","s"," ","a","c","r",
            "o","s","s"," ","p","a","r","t","n","e","r"," ","c","o","u","n","t","r","i","e","s",","," ","w",
            "i","t","h"," ","t","o","o","l","k","i","t"," ","r","e","s","o","u","r","c","e","s"," ","m","a",
            "d","e"," ","a","v","a","i","l","a","b","l","e"," ","t","o"," ","o","r","g","a","n","i","z","a",
            "t","i","o","n","s"," ","t","h","r","o","u","g","h","o","u","t"," ","E","u","r","o","p","e",".",
            "\n","\n","L","o","n","g","-","t","e","r","m"," ","s","u","s","t","a","i","n","a","b","i","l",
            "i","t","y"," ","i","s"," ","e","n","s","u","r","e","d"," ","t","h","r","o","u","g","h"," ","f",
            "o","l","l","o","w","-","u","p"," ","a","c","t","i","v","i","t","i","e","s",","," ","a","l","u",
            "m","n","i"," ","n","e","t","w","o","r","k","s",","," ","a","n","d"," ","i","n","t","e","g","r",
            "a","t","i","o","n"," ","o","f"," ","p","r","o","j","e","c","t"," ","o","u","t","c","o","m","e",
            "s"," ","i","n","t","o"," ","p","a","r","t","n","e","r","s","'"," ","r","e","g","u","l","a","r",
            " ","p","r","o","g","r","a","m","m","i","n","g",".","\n">>)

\* tools.py 298-304: the f-string, stripped
generic_template(section_type, project_title, focus_area, target_audience) ==
    Strip(
        <<
          "\n","T","h","i","s"," ","s","e","c","t","i","o","n"," ","f","o","c","u","s","e","s"," ","o",
          "n"," ">>
        \o Lower(section_type)
        \o <<" ","a","s","p","e","c","t","s"," ","o","f"," ">>
        \o project_title
        \o <<"."," ","T","h","e"," ","p","r","o","j","e","c","t"," ","a","d","d","r","e","s","s","e","s"," ">>
        \o Lower(focus_area)
        \o <<
            " ","p","r","i","o","r","i","t","i","e","s"," ","t","h","r","o","u","g","h"," ","i","n","n","o",
            "v","a","t","i","v","e"," ","a","p","p","r","o","a","c","h","e","s"," ","t","h","a","t"," ","e",
            "n","g","a","g","e"," ">>
        \o Lower(target_audience)
        \o <<
            " ","i","n"," ","m","e","a","n","i","n","g","f","u","l"," ","l","e","a","r","n","i","n","g"," ",
            "e","x","p","e","r","i","e","n","c","e","s",".","\n","\n","O","u","r"," ","a","p","p","r","o",
            "a","c","h"," ","c","o","m","b","i","n","e","s"," ","p","r","o","v","e","n"," ","m","e","t","h",
            "o","d","o","l","o","g","i","e","s"," ","w","i","t","h"," ","i","n","n","o","v","a","t","i","v",
            "e"," ","e","l","e","m","e","n","t","s",","," ","e","n","s","u","r","i","n","g"," ","b","o","t",
            "h"," ","e","f","f","e","c","t","i","v","e","n","e","s","s"," ","a","n","d"," ","E","u","r","o",
            "p","e","a","n"," ","a","d","d","e","d"," ","v","a","l","u","e","."," ","T","h","r","o","u","g",
            "h"," ","c","o","l","l","a","b","o","r","a","t","i","o","n"," ","w","i","t","h"," ","p","a","r",
            "t","n","e","r","s"," ","a","c","r","o","s","s"," ","m","u","l","t","i","p","l","e"," ","c","o",
            "u","n","t","r","i","e","s",","," ","w","e"," ","w","i","l","l"," ","c","r","e","a","t","e"," ",
            "s","u","s","t","a","i","n","a","b","l","e"," ","i","m","p","a","c","t"," ","t","h","a","t"," ",
            "e","x","t","e","n","d","s"," ","b","e","y","o","n","d"," ","t","h","e"," ","p","r","o","j","e",
            "c","t"," ","t","i","m","e","l","i","n","e",".","\n","\n","K","e","y"," ","e","l","e","m","e",
            "n","t","s"," ","i","n","c","l","u","d","e"," ","p","a","r","t","i","c","i","p","a","n","t","-",
            "c","e","n","t","e","r","e","d"," ","d","e","s","i","g","n",","," ","q","u","a","l","i","t","y",
            " ","a","s","s","u","r","a","n","c","e"," ","m","e","c","h","a","n","i","s","m","s",","," ","a",
            "n","d"," ","c","o","m","p","r","e","h","e","n","s","i","v","e"," ","e","v","a","l","u","a","t",
            "i","o","n"," ","t","o"," ","e","n","s","u","r","e"," ","p","r","o","j","e","c","t"," ","o","b",
            "j","e","c","t","i","v","e","s"," ","a","r","e"," ","m","e","t"," ","a","n","d"," ","l","e","s",
            "s","o","n","s"," ","l","e","a","r","n","e","d"," ","a","r","e"," ","s","h","a","r","e","d"," ",
            "w","i","t","h"," ","t","h","e"," ","b","r","o","a","d","e","r"," ","E","u","r","o","p","e","a",
            "n"," ","c","o","m","m","u","n","i","t","y",".","\n">>)

\* tools.py 261-304: content_templates.get(section_type, <generic template>)
select_template(section_type, project_title, focus_area, target_audience) ==
    IF section_type = <<"P","r","o","j","e","c","t"," ","D","e","s","c","r","i","p","t","i","o","n">>
    THEN project_description_template(project_title, focus_area, target_audience)
    ELSE IF section_type = <<"M","e","t","h","o","d","o","l","o","g","y">> THEN methodology_template(focus_area)
    ELSE IF section_type = <<"I","m","p","a","c","t">> THEN impact_template(project_title, focus_area)
    ELSE generic_template(section_type, project_title, focus_area, target_audience)

\* a drafter that cuts the content at the word limit and appends no marker
apply_word_limit_without_marker(content, word_limit) ==
    IF ~IsNone(word_limit) /\ Val(word_limit) # 0
    THEN LET words == Split(content)
         IN  IF Len(words) > Val(word_limit)
             THEN Join(<<" ">>, SliceTo(words, Val(word_limit)))
             ELSE content
    ELSE content

\* a drafter that appends the marker as a word of its own
apply_word_limit_marker_token(content, word_limit) ==
    IF ~IsNone(word_limit) /\ Val(word_limit) # 0
    THEN LET words == Split(content)
         IN  IF Len(words) > Val(word_limit)
             THEN Join(<<" ">>, SliceTo(words, Val(word_limit)) \o <<<<".",".",".">>>>)
             ELSE content
    ELSE content

\* a drafter that applies every limit that is not None, the limit 0 included
apply_word_limit_zero_is_limit(content, word_limit) ==
    IF ~IsNone(word_limit)
    THEN LET words == Split(content)
         IN  IF Len(words) > Val(word_limit)
             THEN Join(<<" ">>, SliceTo(words, Val(word_limit))) \o <<".",".",".">>
             ELSE content
    ELSE content

\* tools.py 306-310: apply the word limit if specified
apply_word_limit(content, word_limit) ==
    IF ~IsNone(word_limit) /\ Val(word_limit) # 0
    THEN LET words == Split(content)
         IN  IF Len(words) > Val(word_limit)
             THEN Join(<<" ">>, SliceTo(words, Val(word_limit))) \o <<".",".",".">>
             ELSE content
    ELSE content

\* a count of the pieces between single spaces: len(content.split(" "))
count_words_by_single_spaces(content) ==
    Len(SelectSeq(content, LAMBDA ch : ch = " ")) + 1

\* tools.py 313: word_count = len(content.split())
count_words(content) == Len(Split(content))

\* tools.py 319-323: the European dimension test
has_european_dimension(text) ==
    Contains(<<"e","u","r","o","p","e","a","n">>, text) \/ Contains(<<"e","u","r","o","p","e">>, text)

\* tools.py 326-329: the target group test
has_target_group(text) ==
    AnyIn({<<"p","a","r","t","i","c","i","p","a","n","t","s">>, <<"y","o","u","t","h">>, <<"y","o","u","n","g"," ","p","e","o","p","l","e">>}, text)

\* tools.py 332-335: the innovation test
has_innovation(text) ==
    AnyIn({<<"i","n","n","o","v","a","t","i","v","e">>, <<"i","n","n","o","v","a","t","i","o","n">>, <<"n","e","w"," ","a","p","p","r","o","a","c","h">>}, text)

\* tools.py 320, 326, 332: the three tests on content.lower()
compliance_tests(content) ==
    LET text == Lower(content)
    IN  [ european |-> has_european_dimension(text),
          target_group |-> has_target_group(text),
          innovation |-> has_innovation(text) ]

\* tools.py 316-335: compliance_issues, in the order of the three tests
compliance_issues_of(tests) ==
    (IF tests.european THEN <<>>
     ELSE <<"European dimension needs stronger emphasis">>)
    \o (IF tests.target_group THEN <<>>
        ELSE <<"Target group definition could be clearer">>)
    \o (IF tests.innovation THEN <<>>
        ELSE <<"Consider adding more innovation elements">>)

\* tools.py 317-333: strengths, in the order of the three tests
strengths_of(tests) ==
    (IF tests.european
     THEN <<"Strong European dimension clearly articulated">> ELSE <<>>)
    \o (IF tests.target_group THEN <<"Target group clearly defined">> ELSE <<>>)
    \o (IF tests.innovation THEN <<"Innovation elements present">> ELSE <<>>)

\* a status that tolerates one missing element
compliance_status_lenient(compliance_issues) == Len(compliance_issues) <= 1

\* tools.py 337
compliance_status_of(compliance_issues) == Len(compliance_issues) = 0

\* tools.py 347-351
improvement_suggestions ==
    << "Consider adding specific quantifiable outcomes",
       "Include references to relevant EU policies or priorities",
       "Ensure clear link between activities and expected results" >>

\* a report whose suggestions are derived from the issues found, one each
generated_content_with_derived_suggestions(section_type, content) ==
    LET tests == compliance_tests(content)
        compliance_issues == compliance_issues_of(tests)
    IN  [ section_name |-> section_type,
          content |-> content,
          word_count |-> count_words(content),
          compliance_status |-> compliance_status_of(compliance_issues),
          compliance_details |->
              [ missing_elements |-> compliance_issues,
                strength_areas |-> strengths_of(tests),
                improvement_suggestions |->
                    SubSeq(improvement_suggestions, 1, Len(compliance_issues)) ] ]

\* tools.py 339-353
generated_content_of(section_type, content) ==
    LET tests == compliance_tests(content)
        compliance_issues == compliance_issues_of(tests)
    IN  [ section_name |-> section_type,
          content |-> content,
          word_count |-> count_words(content),
          compliance_status |-> compliance_status_of(compliance_issues),
          compliance_details |->
              [ missing_elements |-> compliance_issues,
                strength_areas |-> strengths_of(tests),
                improvement_suggestions |-> improvement_suggestions ] ]

\* tools.py 363: the sentence of the impact-focused version
impact_sentence ==
    <<
      "\n","\n","T","h","i","s"," ","p","r","o","j","e","c","t"," ","d","i","r","e","c","t","l","y",
      " ","c","o","n","t","r","i","b","u","t","e","s"," ","t","o"," ","E","u","r","o","p","e","a","n",
      " ","s","o","c","i","a","l"," ","c","o","h","e","s","i","o","n"," ","a","n","d"," ","d","e","m",
      "o","c","r","a","t","i","c"," ","v","a","l","u","e","s",".">>

\* alternative versions that carry the word count of the primary content
alternative_versions_with_primary_count(content) ==
    << [ content |-> Replace(Replace(content, <<"i","n","n","o","v","a","t","i","v","e">>, <<
            "c","u","t","t","i","n","g","-","e","d","g","e">>),
                             <<"t","r","a","d","i","t","i","o","n","a","l">>, <<"c","o","n","v","e","n","t","i","o","n","a","l">>),
         focus |-> "technical",
         word_count |-> Len(Split(content)) ],
       [ content |-> content \o impact_sentence,
         focus |-> "impact-focused",
         word_count |-> Len(Split(content)) ] >>

\* tools.py 356-367
alternative_versions_of(content) ==
    << [ content |-> Replace(Replace(content, <<"i","n","n","o","v","a","t","i","v","e">>, <<
            "c","u","t","t","i","n","g","-","e","d","g","e">>),
                             <<"t","r","a","d","i","t","i","o","n","a","l">>, <<"c","o","n","v","e","n","t","i","o","n","a","l">>),
         focus |-> "technical",
         word_count |-> Len(Split(Replace(content, <<"i","n","n","o","v","a","t","i","v","e">>, <<
            "c","u","t","t","i","n","g","-","e","d","g","e">>))) ],
       [ content |-> content \o impact_sentence,
         focus |-> "impact-focused",
         word_count |-> Len(Split(content \o impact_sentence)) ] >>

\* tools.py 395-401: the except branch
section_failure(e) ==
    [ success |-> FALSE,
      generated_content |-> None,
      alternative_versions |-> <<>>,
      error |-> Some(<<
            "C","o","n","t","e","n","t"," ","g","e","n","e","r","a","t","i","o","n"," ","f","a","i","l","e",
            "d",":"," ">> \o e) ]

\* tools.py 255-394: str(e) of the exception the try block raises, None if it
\* raises none.  deps is ctx.deps (None, or Some of the dependency context); the
\* values of project_context are None or Some(str).
section_exception(deps, project_context) ==
    LET focus_area == DictGet(project_context, "focus_area", Some(<<"G","e","n","e","r","a","l">>))
        target_audience ==
            DictGet(project_context, "target_audience", Some(<<
            "Y","o","u","n","g"," ","p","e","o","p","l","e">>))
    IN  IF IsNone(focus_area) \/ IsNone(target_audience)
        THEN \* focus_area.lower() / target_audience.lower() raises (line 263)
             Some(NoneAttributeError(<<"l","o","w","e","r">>))
        ELSE IF IsNone(deps)
        THEN \* ctx.deps.project_id raises (line 370)
             Some(NoneAttributeError(<<"p","r","o","j","e","c","t","_","i","d">>))
        ELSE None

\* tools.py 256-304: the content before the word limit, for a project_context
\* whose focus_area and target_audience are strings
template_content(section_type, project_context) ==
    LET project_title == DictGet(project_context, "title", Some(<<
            "U","n","n","a","m","e","d"," ","P","r","o","j","e","c","t">>))
        focus_area == DictGet(project_context, "focus_area", Some(<<"G","e","n","e","r","a","l">>))
        target_audience ==
            DictGet(project_context, "target_audience", Some(<<
            "Y","o","u","n","g"," ","p","e","o","p","l","e">>))
    IN  select_template(section_type, Val(project_title), Val(focus_area),
                        Val(target_audience))

\* tools.py 255-401: the dict generate_application_section returns
generate_application_section(deps, section_type, project_context, word_limit) ==
    LET e == section_exception(deps, project_context)
    IN  IF ~IsNone(e) THEN section_failure(Val(e))
        ELSE LET content ==
                     apply_word_limit(template_content(section_type, project_context),
                                      word_limit)
             IN  [ success |-> TRUE,
                   generated_content |-> Some(generated_content_of(section_type, content)),
                   alternative_versions |-> alternative_versions_of(content),
                   error |-> None ]

----------------------------------------------------------------------------
\* tools.py: brainstorm_project_ideas

\* tools.py 38-46
digital_concept(initial_concept, organization_context) ==
    [ title |-> <<"D","i","g","i","t","a","l"," ","S","k","i","l","l","s"," ","f","o","r"," ">> \o organization_context \o <<":"," ">> \o initial_concept,
      focus_area |-> "Digital Transformation",
      target_audience |-> "Young adults 18-30, unemployed or with low digital skills",
      innovation_angle |-> "AI-powered personalized learning paths with peer mentoring",
      feasibility_score |-> 8,
      rationale |-> "Strong EU priority, clear target group, proven methodologies available" ]

\* tools.py 48-56
green_concept(initial_concept) ==
    [ title |-> <<
            "G","r","e","e","n"," ","T","r","a","n","s","i","t","i","o","n"," ","C","h","a","m","p","i","o",
            "n","s",":"," ">> \o initial_concept,
      focus_area |-> "Green Transition",
      target_audience |-> "Youth organizations and environmental activists",
      innovation_angle |-> "Gamified environmental action with cross-border challenges",
      feasibility_score |-> 9,
      rationale |-> "High EU priority, engaging methodology, measurable outcomes" ]

\* tools.py 58-66
inclusion_concept(initial_concept) ==
    [ title |-> <<"I","n","c","l","u","s","i","v","e"," ","E","u","r","o","p","e",":"," ">> \o initial_concept,
      focus_area |-> "Inclusion and Diversity",
      target_audience |-> "Marginalized youth and support organizations",
      innovation_angle |-> "Peer-to-peer support networks with digital storytelling",
      feasibility_score |-> 7,
      rationale |->
          "Critical EU priority, requires sensitive approach, strong impact potential" ]

\* tools.py 69-77
default_concept(initial_concept) ==
    [ title |-> <<
            "E","u","r","o","p","e","a","n"," ","Y","o","u","t","h"," ","N","e","t","w","o","r","k",":"," ">> \o initial_concept,
      focus_area |-> "Participation",
      target_audience |-> "Young people 16-25 interested in civic engagement",
      innovation_angle |-> "Cross-border collaboration with local community projects",
      feasibility_score |-> 6,
      rationale |-> "Broad appeal, established methodologies, moderate complexity" ]

\* a concepts list that puts the green concept before the digital one
concepts_green_first(initial_concept, focus_preference, organization_context) ==
    LET text == Lower(initial_concept)
        matched ==
            (IF Contains(<<"g","r","e","e","n">>, text) \/ Contains(<<"e","n","v","i","r","o","n","m","e","n","t">>, text)
             THEN <<green_concept(initial_concept)>> ELSE <<>>)
            \o (IF Contains(<<"d","i","g","i","t","a","l">>, text)
                      \/ focus_preference = Some(<<
            "D","i","g","i","t","a","l"," ","T","r","a","n","s","f","o","r","m","a","t","i","o","n">>)
                THEN <<digital_concept(initial_concept, organization_context)>> ELSE <<>>)
            \o (IF Contains(<<"i","n","c","l","u","s","i","o","n">>, text) \/ Contains(<<"d","i","v","e","r","s","i","t","y">>, text)
                THEN <<inclusion_concept(initial_concept)>> ELSE <<>>)
    IN  IF matched = <<>> THEN <<default_concept(initial_concept)>> ELSE matched

\* tools.py 35-77: the concepts list
concepts_of(initial_concept, focus_preference, organization_context) ==
    LET text == Lower(initial_concept)
        matched ==
            (IF Contains(<<"d","i","g","i","t","a","l">>, text)
                  \/ focus_preference = Some(<<
            "D","i","g","i","t","a","l"," ","T","r","a","n","s","f","o","r","m","a","t","i","o","n">>)
             THEN <<digital_concept(initial_concept, organization_context)>> ELSE <<>>)
            \o (IF Contains(<<"g","r","e","e","n">>, text) \/ Contains(<<"e","n","v","i","r","o","n","m","e","n","t">>, text)
                THEN <<green_concept(initial_concept)>> ELSE <<>>)
            \o (IF Contains(<<"i","n","c","l","u","s","i","o","n">>, text) \/ Contains(<<"d","i","v","e","r","s","i","t","y">>, text)
                THEN <<inclusion_concept(initial_concept)>> ELSE <<>>)
    IN  IF matched = <<>> THEN <<default_concept(initial_concept)>> ELSE matched

\* tools.py 97-102
brainstorm_next_steps ==
    << "Select the most promising concept for further development",
       "Identify potential European partner organizations",
       "Define specific learning outcomes and impact metrics",
       "Estimate budget and timeline requirements" >>

\* tools.py 106-112: the except branch
brainstorm_failure(e) ==
    [ success |-> FALSE,
      project_concepts |-> <<>>,
      next_steps |-> <<>>,
      error |-> Some(<<
            "B","r","a","i","n","s","t","o","r","m","i","n","g"," ","f","a","i","l","e","d",":"," ">> \o e) ]

\* a try block that lets the errors of the database write escape: it raises
\* whenever there is a project to update
brainstorm_exception_on_persistence(deps) ==
    IF IsNone(deps) THEN Some(NoneAttributeError(<<"p","r","o","j","e","c","t","_","i","d">>))
    ELSE IF ~IsNone(Val(deps).project_id) THEN Some(<<
            "d","a","t","a","b","a","s","e"," ","u","n","a","v","a","i","l","a","b","l","e">>)
    ELSE None

\* tools.py 33-105: str(e) of the exception the try block raises, None if it
\* raises none
brainstorm_exception(deps) ==
    IF IsNone(deps)
    THEN \* ctx.deps.project_id raises (line 80)
         Some(NoneAttributeError(<<"p","r","o","j","e","c","t","_","i","d">>))
    ELSE None

\* tools.py 33-112: the dict brainstorm_project_ideas returns
brainstorm_project_ideas(deps, initial_concept, focus_preference, organization_context) ==
    IF ~IsNone(brainstorm_exception(deps))
    THEN brainstorm_failure(Val(brainstorm_exception(deps)))
    ELSE [ success |-> TRUE,
           project_concepts |->
               concepts_of(initial_concept, focus_preference, organization_context),
           next_steps |-> brainstorm_next_steps,
           error |-> None ]

----------------------------------------------------------------------------
\* tools.py: discover_erasmus_partners

\* tools.py 134-175: the keyword arguments of each Partner(**partner_data)
mock_partners ==
    << [ name |-> "Digital Youth Foundation",
         country |-> <<"G","e","r","m","a","n","y">>,
         organization_type |-> "NGO",
         expertise_areas |-> <<<<"D","i","g","i","t","a","l"," ","S","k","i","l","l","s">>, <<"Y","o","u","t","h"," ","W","o","r","k">>, <<"I","n","n","o","v","a","t","i","o","n">>>>,
         contact_info |-> [email |-> "contact@digitalyouth.de",
                           website |-> "https://digitalyouth.de"],
         erasmus_code |-> "DE-YOUTH-001",
         compatibility_score |-> 9,
         partnership_rationale |->
             "Strong digital expertise and proven track record in youth projects" ],
       [ name |-> "Green Action Network",
         country |-> <<"N","e","t","h","e","r","l","a","n","d","s">>,
         organization_type |-> "NGO",
         expertise_areas |-> <<<<
            "E","n","v","i","r","o","n","m","e","n","t","a","l"," ","E","d","u","c","a","t","i","o","n">>, <<
            "S","u","s","t","a","i","n","a","b","i","l","i","t","y">>,
                               <<
            "C","o","m","m","u","n","i","t","y"," ","E","n","g","a","g","e","m","e","n","t">>>>,
         contact_info |-> [email |-> "info@greenaction.nl",
                           website |-> "https://greenaction.nl"],
         erasmus_code |-> "NL-GREEN-002",
         compatibility_score |-> 8,
         partnership_rationale |->
             "Excellent environmental focus with European-wide networks" ],
       [ name |-> "Inclusion Works",
         country |-> <<"S","p","a","i","n">>,
         organization_type |-> "Public Body",
         expertise_areas |-> <<<<"S","o","c","i","a","l"," ","I","n","c","l","u","s","i","o","n">>, <<
            "D","i","v","e","r","s","i","t","y"," ","T","r","a","i","n","i","n","g">>,
                               <<"Y","o","u","t","h"," ","S","u","p","p","o","r","t">>>>,
         contact_info |-> [email |-> "hello@inclusionworks.es",
                           website |-> "https://inclusionworks.es"],
         erasmus_code |-> "ES-INCL-003",
         compatibility_score |-> 7,
         partnership_rationale |->
             "Specialized in inclusion work with vulnerable groups" ],
       [ name |-> "Innovation Academy",
         country |-> <<"F","i","n","l","a","n","d">>,
         organization_type |-> "Higher Education Institution",
         expertise_areas |-> <<<<"I","n","n","o","v","a","t","i","o","n">>, <<
            "E","n","t","r","e","p","r","e","n","e","u","r","s","h","i","p">>, <<
            "T","e","c","h","n","o","l","o","g","y">>>>,
         contact_info |-> [email |-> "partnerships@innovacademy.fi",
                           website |-> "https://innovacademy.fi"],
         erasmus_code |-> "FI-INNOV-004",
         compatibility_score |-> 8,
         partnership_rationale |->
             "Academic excellence in innovation and strong research capabilities" ] >>

\* models.py 48-58: the fields of Partner that have no default
partner_required_fields == {"id", "name", "country", "organization_type"}

\* models.py 48-58: Partner(**partner_data) validates; a field with no default that
\* is not given is rejected at construction
partner_is_valid(partner_data) ==
    /\ partner_required_fields \subseteq DOMAIN partner_data
    /\ partner_data.compatibility_score \in 1..10

\* str(e) of the ValidationError of Partner(**partner_data), its first line
partner_validation_error == <<
            "1"," ","v","a","l","i","d","a","t","i","o","n"," ","e","r","r","o","r"," ","f","o","r"," ","P",
            "a","r","t","n","e","r">>

\* the Python truth value of an Optional list
Truthy(optional_list) == ~IsNone(optional_list) /\ Val(optional_list) # <<>>

\* item in list
InList(item, list) == \E i \in 1..Len(list) : list[i] = item

\* [s.lower() for s in list]
LowerAll(list) == [i \in 1..Len(list) |-> Lower(list[i])]

\* tools.py 183-184: the country filter lets the partner through
country_passes(partner, required_countries) ==
    ~(Truthy(required_countries) /\ ~InList(partner.country, Val(required_countries)))

\* tools.py 187-193: the expertise filter lets the partner through
expertise_passes(partner, expertise_areas) ==
    Truthy(expertise_areas) =>
        \E i \in 1..Len(Val(expertise_areas)) :
            InList(Lower(Val(expertise_areas)[i]), LowerAll(partner.expertise_areas))

\* an adjustment that adds two for a matching focus and has no cap
adjusted_score_uncapped(partner, project_focus) ==
    IF InList(Lower(project_focus), LowerAll(partner.expertise_areas))
    THEN partner.compatibility_score + 2
    ELSE partner.compatibility_score

\* tools.py 196-197: the compatibility score after the project-focus adjustment
adjusted_score(partner, project_focus) ==
    IF InList(Lower(project_focus), LowerAll(partner.expertise_areas))
    THEN Min(10, partner.compatibility_score + 1)
    ELSE partner.compatibility_score

\* tools.py 178-199: filtered_partners, in the order of mock_partners
filtered_partners_of(project_focus, required_countries, expertise_areas) ==
    LET kept == SelectSeq(mock_partners,
                    LAMBDA p : /\ country_passes(p, required_countries)
                               /\ expertise_passes(p, expertise_areas))
    IN  [i \in 1..Len(kept) |->
            [kept[i] EXCEPT !.compatibility_score = adjusted_score(kept[i], project_focus)]]

\* tools.py 216: list(set(partner["country"] for partner in filtered_partners))
countries_covered_of(filtered_partners) ==
    {filtered_partners[i].country : i \in 1..Len(filtered_partners)}

\* an except branch that reports the size of the partner base as found
partner_failure_stale_metadata(e) ==
    [ success |-> FALSE,
      potential_partners |-> <<>>,
      search_metadata |-> [total_found |-> Len(mock_partners), countries_covered |-> {}],
      error |-> Some(<<
            "P","a","r","t","n","e","r"," ","s","e","a","r","c","h"," ","f","a","i","l","e","d",":"," ">> \o e) ]

\* tools.py 229-235: the except branch
partner_failure(e) ==
    [ success |-> FALSE,
      potential_partners |-> <<>>,
      search_metadata |-> [total_found |-> 0, countries_covered |-> {}],
      error |-> Some(<<
            "P","a","r","t","n","e","r"," ","s","e","a","r","c","h"," ","f","a","i","l","e","d",":"," ">> \o e) ]

\* tools.py 132-228: str(e) of the exception the try block raises, None if it
\* raises none
partner_exception(deps) ==
    IF \E i \in 1..Len(mock_partners) : ~partner_is_valid(mock_partners[i])
    THEN \* Partner(**partner_data) raises (line 180)
         Some(partner_validation_error)
    ELSE IF IsNone(deps)
    THEN \* ctx.deps.project_id raises (line 202)
         Some(NoneAttributeError(<<"p","r","o","j","e","c","t","_","i","d">>))
    ELSE None

\* tools.py 132-235: the dict discover_erasmus_partners returns
discover_erasmus_partners(deps, project_focus, required_countries, expertise_areas) ==
    IF ~IsNone(partner_exception(deps))
    THEN partner_failure(Val(partner_exception(deps)))
    ELSE LET filtered_partners ==
                 filtered_partners_of(project_focus, required_countries, expertise_areas)
         IN  [ success |-> TRUE,
               potential_partners |-> filtered_partners,
               search_metadata |->
                   [ total_found |-> Len(filtered_partners),
                     countries_covered |-> countries_covered_of(filtered_partners),
                     search_focus |-> project_focus ],
               error |-> None ]

----------------------------------------------------------------------------
\* dependencies.py: OpenHorizonDependencies

\* dependencies.py 38-55: from_settings(**overrides); the private clients start
\* as None (lines 35-36), here FALSE
from_settings(project_id) ==
    [ project_id |-> project_id,
      supabase_client |-> FALSE,
      partner_api_client |-> FALSE ]

\* dependencies.py 38-55: from_settings(session_id=..., user_id=..., project_id=...)
\* with the three identifiers kept
from_settings_for(session_id, user_id, project_id) ==
    [ session_id |-> session_id,
      user_id |-> user_id,
      project_id |-> project_id,
      supabase_client |-> FALSE,
      partner_api_client |-> FALSE ]

\* dependencies.py 68-76: the partner_api_client property constructs the client
\* when there is none
partner_api_client(deps) == [deps EXCEPT !.partner_api_client = TRUE]

\* settings.py 83-89: str(e) of the ValueError load_settings raises
settings_error == <<
            "F","a","i","l","e","d"," ","t","o"," ","l","o","a","d"," ","s","e","t","t","i","n","g","s">>

\* the outcomes of one use of the database through ctx.deps.supabase:
\* create_client raises (dependencies.py 62), execute() raises, or neither
DbOutcomes(deps) ==
    IF deps.supabase_client THEN {"ok", "execute_raises"}
    ELSE {"ok", "create_client_raises", "execute_raises"}

\* dependencies.py 57-66: the supabase property; the client is kept once created
supabase(deps, outcome) ==
    IF deps.supabase_client \/ outcome # "create_client_raises"
    THEN [deps EXCEPT !.supabase_client = TRUE]
    ELSE deps

\* dependencies.py 78-82: cleanup() closes the partner HTTP client, if there is one
cleanup(deps) == [deps EXCEPT !.partner_api_client = FALSE]

\* dependencies.py 80-81: the handles cleanup() releases
released_by_cleanup(deps) == IF deps.partner_api_client THEN {"partner_api"} ELSE {}

\* the handles a dependency context holds
handles_of(deps) ==
    (IF deps.supabase_client THEN {"supabase"} ELSE {})
        \cup (IF deps.partner_api_client THEN {"partner_api"} ELSE {})

----------------------------------------------------------------------------
\* The tools as they run: the returned dict and the best-effort persistence.

Tools == {"brainstorm_project_ideas", "discover_erasmus_partners",
          "generate_application_section"}

\* tools.py 89, 211, 383: the collection each tool writes to
collection_of(tool) ==
    CASE tool = "brainstorm_project_ideas" -> "projects"
      [] tool = "discover_erasmus_partners" -> "partner_searches"
      [] tool = "generate_application_section" -> "application_sections"

\* the dict the tool returns for its arguments when the persistence block lets no
\* exception out
tool_result_of(tool, deps, args) ==
    CASE tool = "brainstorm_project_ideas" ->
             brainstorm_project_ideas(deps, args.initial_concept, args.focus_preference,
                                      args.organization_context)
      [] tool = "discover_erasmus_partners" ->
             discover_erasmus_partners(deps, args.project_focus, args.required_countries,
                                       args.expertise_areas)
      [] tool = "generate_application_section" ->
             generate_application_section(deps, args.section_type, args.project_context,
                                          args.word_limit)

\* whether the try block of the tool runs to its return statement (tools.py 94,
\* 217, 388)
tool_succeeds(tool, deps, args) ==
    CASE tool = "brainstorm_project_ideas" -> IsNone(brainstorm_exception(deps))
      [] tool = "discover_erasmus_partners" -> IsNone(partner_exception(deps))
      [] tool = "generate_application_section" ->
             IsNone(section_exception(deps, args.project_context))

\* tools.py 80, 202, 370: the persistence block is entered when the tool got that
\* far (every exception of the three tools is raised before it) and
\* ctx.deps.project_id is truthy
persists(deps, success) ==
    /\ success
    /\ ~IsNone(deps)
    /\ ~IsNone(Val(deps).project_id)
    /\ Val(Val(deps).project_id) # <<>>

\* tools.py 81-92, 203-214, 371-386: the try block around the write; the
\* dependency context after it
deps_after_persist(deps, success, outcome) ==
    IF persists(deps, success) THEN Some(supabase(Val(deps), outcome)) ELSE deps

\* tools.py 89, 211, 383: whether execute() was called on the collection
write_attempted(deps, success, outcome) ==
    persists(deps, success) /\ supabase(Val(deps), outcome).supabase_client

\* str(e) of an exception raised by the database client
database_error == <<"D","a","t","a","b","a","s","e"," ","e","r","r","o","r">>

\* an inner try block that lets the error of a failed write escape to the outer
\* except branch of the tool
persistence_exception_escaping(deps, success, outcome) ==
    IF persists(deps, success) /\ outcome # "ok" THEN Some(database_error) ELSE None

\* tools.py 90-92, 212-214, 384-386: `except Exception as db_error: pass`; str(e)
\* of the exception that leaves the inner try block, None as none does
persistence_exception(deps, success, outcome) == None

\* tools.py 106-112, 229-235, 395-401: the dict of the tool's except branch
tool_failure(tool, e) ==
    CASE tool = "brainstorm_project_ideas" -> brainstorm_failure(e)
      [] tool = "discover_erasmus_partners" -> partner_failure(e)
      [] tool = "generate_application_section" -> section_failure(e)

\* the dict the tool returns once the persistence block has run with the given
\* database outcome; result is the dict of the run up to that block
tool_result_after_persist(tool, result, deps, outcome) ==
    LET e == persistence_exception(deps, result.success, outcome)
    IN  IF IsNone(e) THEN result ELSE tool_failure(tool, Val(e))

\* the outcomes the database can have for this tool run
outcomes_for(deps, success) ==
    IF persists(deps, success) THEN DbOutcomes(Val(deps)) ELSE {"ok"}

----------------------------------------------------------------------------
\* agent.py: the typed responses of the orchestrators

Orchestrators == {"run_brainstorming_session", "run_partner_search",
                  "run_application_writing"}

\* agent.py 118, 170, 224: the tool function each orchestrator calls directly, which
\* is also the tool registered with its agent (agent.py 49-79)
tool_of(entry) ==
    CASE entry = "run_brainstorming_session" -> "brainstorm_project_ideas"
      [] entry = "run_partner_search" -> "discover_erasmus_partners"
      [] entry = "run_application_writing" -> "generate_application_section"

\* a response whose success flag is also read out of the model's text
response_parsed_from_text(entry, result, tool_result) ==
    LET success == tool_result.success /\ ~Contains(<<
            "\"","s","u","c","c","e","s","s","\"",":"," ","f","a","l","s","e">>, result)
    IN  CASE entry = "run_brainstorming_session" ->
                 [ success |-> success,
                   project_concepts |-> <<>>,
                   next_steps |-> tool_result.next_steps,
                   error |-> tool_result.error ]
          [] entry = "run_partner_search" ->
                 [ success |-> success,
                   potential_partners |-> <<>>,
                   search_metadata |-> tool_result.search_metadata,
                   error |-> tool_result.error ]
          [] entry = "run_application_writing" ->
                 [ success |-> success,
                   generated_content |-> None,
                   alternative_versions |-> tool_result.alternative_versions,
                   error |-> tool_result.error ]

\* agent.py 125-130, 177-182, 231-236: the response built after the direct tool
\* call; result is what agent.run returned
response_of(entry, result, tool_result) ==
    CASE entry = "run_brainstorming_session" ->
             [ success |-> tool_result.success,
               project_concepts |-> <<>>,
               next_steps |-> tool_result.next_steps,
               error |-> tool_result.error ]
      [] entry = "run_partner_search" ->
             [ success |-> tool_result.success,
               potential_partners |-> <<>>,
               search_metadata |-> tool_result.search_metadata,
               error |-> tool_result.error ]
      [] entry = "run_application_writing" ->
             [ success |-> tool_result.success,
               generated_content |-> None,
               alternative_versions |-> tool_result.alternative_versions,
               error |-> tool_result.error ]

\* an except branch that drops the exception's message
failure_response_without_error(entry, e) ==
    CASE entry = "run_brainstorming_session" ->
             [ success |-> FALSE,
               project_concepts |-> <<>>,
               next_steps |-> <<>>,
               error |-> None ]
      [] entry = "run_partner_search" ->
             [ success |-> FALSE,
               potential_partners |-> <<>>,
               search_metadata |-> EmptyDict,
               error |-> None ]
      [] entry = "run_application_writing" ->
             [ success |-> FALSE,
               generated_content |-> None,
               alternative_versions |-> <<>>,
               error |-> None ]

\* agent.py 132-136, 184-188, 238-242: the response of the except branch; the
\* payload fields keep the defaults of models.py 119-156
failure_response_of(entry, e) ==
    CASE entry = "run_brainstorming_session" ->
             [ success |-> FALSE,
               project_concepts |-> <<>>,
               next_steps |-> <<>>,
               error |-> Some(<<
            "B","r","a","i","n","s","t","o","r","m","i","n","g"," ","s","e","s","s","i","o","n"," ","f","a",
            "i","l","e","d",":"," ">> \o e) ]
      [] entry = "run_partner_search" ->
             [ success |-> FALSE,
               potential_partners |-> <<>>,
               search_metadata |-> EmptyDict,
               error |-> Some(<<
            "P","a","r","t","n","e","r"," ","s","e","a","r","c","h"," ","f","a","i","l","e","d",":"," ">> \o e) ]
      [] entry = "run_application_writing" ->
             [ success |-> FALSE,
               generated_content |-> None,
               alternative_versions |-> <<>>,
               error |-> Some(<<
            "A","p","p","l","i","c","a","t","i","o","n"," ","w","r","i","t","i","n","g"," ","f","a","i","l",
            "e","d",":"," ">> \o e) ]

----------------------------------------------------------------------------
\* api.py: the capability endpoints

\* api.py 86-87, 111-112, 136-137: the endpoint that calls each orchestrator
endpoint_of(entry) ==
    CASE entry = "run_brainstorming_session" -> "brainstorm_project"
      [] entry = "run_partner_search" -> "search_partners"
      [] entry = "run_application_writing" -> "generate_application_content"

\* api.py 101, 126, 151: return response; the framework answers 200 with the
\* response model as body
http_response_of(entry, response) ==
    [ status_code |-> 200, body |-> response, detail |-> None ]

\* api.py 103-108, 128-133, 153-158: the except branch raises HTTPException with
\* status 500
http_exception_of(entry, e) ==
    [ status_code |-> 500,
      body |-> None,
      detail |->
          CASE entry = "run_brainstorming_session" ->
                   Some(<<
            "B","r","a","i","n","s","t","o","r","m","i","n","g"," ","s","e","s","s","i","o","n"," ","f","a",
            "i","l","e","d",":"," ">> \o e)
            [] entry = "run_partner_search" ->
                   Some(<<
            "P","a","r","t","n","e","r"," ","s","e","a","r","c","h"," ","f","a","i","l","e","d",":"," ">> \o e)
            [] entry = "run_application_writing" ->
                   Some(<<
            "C","o","n","t","e","n","t"," ","g","e","n","e","r","a","t","i","o","n"," ","f","a","i","l","e",
            "d",":"," ">> \o e) ]

----------------------------------------------------------------------------
\* models.py: the stored section

\* models.py 84-93: ApplicationSection(project_id=..., section_name=..., content=...,
\* word_count=...). The class is a pydantic BaseModel, whose construction does not
\* call __post_init__ (models.py 95-98): the fields keep the values passed
ApplicationSection(project_id, section_name, content, word_count) ==
    [ id |-> None,
      project_id |-> project_id,
      section_name |-> section_name,
      content |-> content,
      word_count |-> word_count,
      compliance_status |-> FALSE,
      suggestions |-> <<>> ]

----------------------------------------------------------------------------
\* prompts.py: the dynamic system prompt

\* prompts.py 120-123: the three parts made from the fetched row
project_details(project) ==
    << <<"P","r","o","j","e","c","t"," ","t","i","t","l","e",":"," ">> \o Val(DictGet(project, "title", Some(<<"U","n","k","n","o","w","n">>))),
       <<"P","r","o","j","e","c","t"," ","s","t","a","t","u","s",":"," ">> \o Val(DictGet(project, "status", Some(<<"U","n","k","n","o","w","n">>))),
       <<"F","o","c","u","s"," ","a","r","e","a",":"," ">> \o Val(DictGet(project, "focus_area", Some(<<"U","n","k","n","o","w","n">>))) >>

\* prompts.py 117-125: the parts the lookup adds; outcome is what the database
\* did, data the row found (None when the select returned no row)
lookup_parts(outcome, data) ==
    IF outcome # "ok" THEN <<<<
            "P","r","o","j","e","c","t"," ","c","o","n","t","e","x","t"," ","u","n","a","v","a","i","l","a",
            "b","l","e",":"," ">> \o database_error>>
    ELSE IF IsNone(data) THEN <<>>
    ELSE project_details(Val(data))

\* a prompt function whose except branch returns the error text alone
get_session_context_aborting(deps, outcome, data) ==
    IF Truthy(deps.project_id) /\ outcome # "ok"
    THEN <<
           "P","r","o","j","e","c","t"," ","c","o","n","t","e","x","t"," ","u","n","a","v","a","i","l","a",
           "b","l","e",":"," ">> \o database_error
    ELSE LET context_parts ==
                 (IF Truthy(deps.user_id)
                  THEN <<<<"U","s","e","r"," ","I","D",":"," ">> \o Val(deps.user_id)>> ELSE <<>>)
                 \o (IF Truthy(deps.project_id)
                     THEN <<<<"C","u","r","r","e","n","t"," ","p","r","o","j","e","c","t",":"," ">> \o Val(deps.project_id)>>
                              \o lookup_parts(outcome, data)
                     ELSE <<>>)
                 \o (IF Truthy(deps.session_id)
                     THEN <<<<"S","e","s","s","i","o","n"," ","I","D",":"," ">> \o Val(deps.session_id)>> ELSE <<>>)
         IN  IF context_parts # <<>> THEN Join(<<" ","|"," ">>, context_parts)
             ELSE <<
            "N","e","w"," ","u","s","e","r"," ","s","e","s","s","i","o","n"," ","-"," ","p","r","o","v","i",
            "d","e"," ","c","o","m","p","r","e","h","e","n","s","i","v","e"," ","g","u","i","d","a","n","c",
            "e",".">>

\* prompts.py 106-130: the text get_session_context returns
get_session_context(deps, outcome, data) ==
    LET context_parts ==
            (IF Truthy(deps.user_id)
             THEN <<<<"U","s","e","r"," ","I","D",":"," ">> \o Val(deps.user_id)>> ELSE <<>>)
            \o (IF Truthy(deps.project_id)
                THEN <<<<"C","u","r","r","e","n","t"," ","p","r","o","j","e","c","t",":"," ">> \o Val(deps.project_id)>>
                         \o lookup_parts(outcome, data)
                ELSE <<>>)
            \o (IF Truthy(deps.session_id)
                THEN <<<<"S","e","s","s","i","o","n"," ","I","D",":"," ">> \o Val(deps.session_id)>> ELSE <<>>)
    IN  IF context_parts # <<>> THEN Join(<<" ","|"," ">>, context_parts)
        ELSE <<
            "N","e","w"," ","u","s","e","r"," ","s","e","s","s","i","o","n"," ","-"," ","p","r","o","v","i",
            "d","e"," ","c","o","m","p","r","e","h","e","n","s","i","v","e"," ","g","u","i","d","a","n","c",
            "e",".">>

----------------------------------------------------------------------------
\* agent.py 248-290: run_open_horizon_agent

\* agent.py 29-45: the three agents
Agents == {"brainstorming_agent", "planning_agent", "application_agent"}

\* agent.py 49-79: the tool registered with each agent
agent_tool(agent) ==
    CASE agent = "brainstorming_agent" -> "brainstorm_project_ideas"
      [] agent = "planning_agent" -> "discover_erasmus_partners"
      [] agent = "application_agent" -> "generate_application_section"

\* a selection that falls back to the planning agent
selected_agent_default_planning(agent_type) ==
    CASE agent_type = "brainstorming" -> "brainstorming_agent"
      [] agent_type = "application" -> "application_agent"
      [] OTHER -> "planning_agent"

\* agent.py 274-280: agent_map.get(agent_type, brainstorming_agent)
selected_agent(agent_type) ==
    CASE agent_type = "brainstorming" -> "brainstorming_agent"
      [] agent_type = "planning" -> "planning_agent"
      [] agent_type = "application" -> "application_agent"
      [] OTHER -> "brainstorming_agent"

\* agent.py 286-287: the string of the except branch
agent_execution_failed(e) == <<
            "A","g","e","n","t"," ","e","x","e","c","u","t","i","o","n"," ","f","a","i","l","e","d",":"," ">> \o e
----------------------------------------------------------------------------
\* The inputs of the model.

\* project_id: None or an identifier
ProjectIds == {None, Some(<<"p","1">>)}

\* arguments of brainstorm_project_ideas / fields of BrainstormRequest
BrainstormArgs ==
    { [ initial_concept |-> ic, focus_preference |-> fp,
        organization_context |-> <<"S","w","e","d","i","s","h"," ","N","G","O">> ] :
          ic \in {<<
            "D","i","g","i","t","a","l"," ","a","n","d"," ","g","r","e","e","n"," ","y","o","u","t","h"," ",
            "w","o","r","k">>, <<
            "t","e","a","c","h"," ","y","o","u","n","g"," ","p","e","o","p","l","e"," ","p","r","o","g","r",
            "a","m","m","i","n","g"," ","s","k","i","l","l","s">>},
          fp \in {None, Some(<<
            "D","i","g","i","t","a","l"," ","T","r","a","n","s","f","o","r","m","a","t","i","o","n">>)} }

\* arguments of discover_erasmus_partners / fields of PartnerSearchRequest
PartnerArgs ==
    { [ project_focus |-> <<"D","i","g","i","t","a","l"," ","S","k","i","l","l","s">>, required_countries |-> rc,
        expertise_areas |-> Some(<<>>) ] :
          rc \in {None, Some(<<<<"G","e","r","m","a","n","y">>>>)} }

\* arguments of generate_application_section / fields of ApplicationContentRequest
\* in the orchestrated runs
SectionArgs ==
    { [ section_type |-> st, project_context |-> pc, word_limit |-> wl ] :
          st \in {<<"I","m","p","a","c","t">>, <<"B","u","d","g","e","t">>},
          pc \in {EmptyDict, [focus_area |-> None]},
          wl \in {None, Some(3)} }

ArgsOf(tool) ==
    CASE tool = "brainstorm_project_ideas" -> BrainstormArgs
      [] tool = "discover_erasmus_partners" -> PartnerArgs
      [] tool = "generate_application_section" -> SectionArgs

\* arguments of brainstorm_project_ideas called alone
InitialConcepts ==
    { <<
        "D","i","g","i","t","a","l"," ","a","n","d"," ","g","r","e","e","n"," ","y","o","u","t","h"," ",
        "w","o","r","k">>,
      <<
        "t","e","a","c","h"," ","y","o","u","n","g"," ","p","e","o","p","l","e"," ","p","r","o","g","r",
        "a","m","m","i","n","g"," ","s","k","i","l","l","s">>,
      <<
        "h","e","l","p"," ","m","a","r","g","i","n","a","l","i","z","e","d"," ","y","o","u","t","h"," ",
        "f","i","n","d"," ","o","p","p","o","r","t","u","n","i","t","i","e","s">>,
      <<
        "I","n","c","l","u","s","i","o","n"," ","t","h","r","o","u","g","h"," ","e","n","v","i","r","o",
        "n","m","e","n","t"," ","c","l","u","b","s">>,
      <<
        "d","i","v","e","r","s","i","t","y"," ","i","n"," ","D","I","G","I","T","A","L"," ","m","e","d",
        "i","a">> }

FocusPreferences ==
    { None,
      Some(<<"D","i","g","i","t","a","l"," ","T","r","a","n","s","f","o","r","m","a","t","i","o","n">>),
      Some(<<"G","r","e","e","n"," ","T","r","a","n","s","i","t","i","o","n">>),
      Some(<<"I","n","c","l","u","s","i","o","n"," ","a","n","d"," ","D","i","v","e","r","s","i","t","y">>),
      Some(<<"d","i","g","i","t","a","l"," ","t","r","a","n","s","f","o","r","m","a","t","i","o","n">>) }

OrganizationContexts == {<<"S","w","e","d","i","s","h"," ","N","G","O">>, <<
            "S","o","c","i","a","l"," ","S","e","r","v","i","c","e","s"," ","N","G","O">>}

\* arguments of discover_erasmus_partners called alone
ProjectFocuses ==
    {<<"D","i","g","i","t","a","l"," ","S","k","i","l","l","s">>, <<
            "d","i","g","i","t","a","l"," ","s","k","i","l","l","s"," ","d","e","v","e","l","o","p","m","e",
            "n","t">>, <<
            "v","e","r","y"," ","s","p","e","c","i","f","i","c"," ","n","i","c","h","e"," ","t","o","p","i",
            "c">>}

RequiredCountries ==
    { None,
      Some(<<>>),
      Some(<<<<"G","e","r","m","a","n","y">>>>),
      Some(<<<<"G","e","r","m","a","n","y">>, <<"N","e","t","h","e","r","l","a","n","d","s">>>>),
      Some(<<<<"N","o","n","e","x","i","s","t","e","n","t","C","o","u","n","t","r","y">>>>) }

ExpertiseAreas ==
    { None,
      Some(<<>>),
      Some(<<<<"i","n","n","o","v","a","t","i","o","n">>>>),
      Some(<<<<"V","e","r","y","S","p","e","c","i","f","i","c","E","x","p","e","r","t","i","s","e">>>>) }

\* the project_id and the request of each of two orchestrator calls in flight
\* together
ConcurrentProjectIds ==
    <<Some(<<"p","1">>),
      Some(<<"p","2">>)>>

ConcurrentArgsOf(tool) ==
    CASE tool = "brainstorm_project_ideas" ->
             { [ initial_concept |->
                     <<
            "D","i","g","i","t","a","l"," ","a","n","d"," ","g","r","e","e","n"," ","y","o","u","t","h"," ",
            "w","o","r","k">>,
                 focus_preference |-> None,
                 organization_context |->
                     <<"S","w","e","d","i","s","h"," ","N","G","O">> ] }
      [] tool = "discover_erasmus_partners" ->
             { [ project_focus |->
                     <<"D","i","g","i","t","a","l"," ","S","k","i","l","l","s">>,
                 required_countries |-> None,
                 expertise_areas |-> Some(<<>>) ] }
      [] tool = "generate_application_section" ->
             { [ section_type |->
                     <<"I","m","p","a","c","t">>,
                 project_context |-> EmptyDict,
                 word_limit |-> Some(3) ] }

\* the orchestrators in the order of their definitions
OrchestratorOrder ==
    <<"run_brainstorming_session", "run_partner_search", "run_application_writing">>

\* session_id and user_id of a dependency context
SessionIds == {None, Some(<<"s","1">>)}

UserIds == {None, Some(<<>>), Some(<<"u","s","e","r","_","1","2","3">>)}

\* what the project lookup of get_session_context does, and the row it finds
Lookups == {"ok", "raises"}

ProjectRows ==
    { None,
      Some(EmptyDict),
      Some([ title |-> Some(<<"G","r","e","e","n"," ","Y","o","u","t","h">>), status |-> Some(<<"p","l","a","n","n","i","n","g">>),
             focus_area |-> Some(<<"I","n","n","o","v","a","t","i","o","n">>) ]) }

\* section types, project contexts and word limits of the section drafter alone
SectionTypes == {<<"P","r","o","j","e","c","t"," ","D","e","s","c","r","i","p","t","i","o","n">>, <<"M","e","t","h","o","d","o","l","o","g","y">>, <<"I","m","p","a","c","t">>, <<"B","u","d","g","e","t">>}

ProjectContexts ==
    { EmptyDict,
      [ title |-> Some(<<"G","r","e","e","n"," ","Y","o","u","t","h">>), focus_area |-> Some(<<"I","n","n","o","v","a","t","i","o","n">>),
        target_audience |-> Some(<<"L","o","c","a","l"," ","T","e","e","n","s">>) ],
      [ focus_area |-> None ] }

WordLimits == {None} \cup {Some(n) : n \in (0 - MaxNegLimit)..MaxWordLimit}

\* what the language model can answer
LLMTexts == {<<"H","e","r","e"," ","a","r","e"," ","t","h","r","e","e"," ","i","d","e","a","s",".">>, <<
            "{","\"","s","u","c","c","e","s","s","\"",":"," ","f","a","l","s","e",","," ","\"","e","r","r",
            "o","r","\"",":"," ","\"","n","o","n","e","\"","}">>}

\* str(e) of an exception raised by the agent run
agent_error == <<"m","o","d","e","l"," ","r","e","q","u","e","s","t"," ","f","a","i","l","e","d">>

----------------------------------------------------------------------------
\* The state: call[c] is invocation c of an entry point.
\*   entry        the function called: an orchestrator or a tool
\*   args         the request (orchestrator) or the arguments (tool)
\*   project_id   the project_id given to the orchestrator
\*   deps         the dependency context: None until from_settings returns
\*                (orchestrator); ctx.deps as given (tool)
\*   pc           start, agent, llm, tool, cleanup, returned, raised
\*   result       what agent.run returned
\*   agent_tool_calls  tool calls the language model made during the agent run
\*   persist_attempts  how often a tool entered its persistence block
\*   writes       execute() calls per collection
\*   released     per handle, how often it was closed
\*   cleanups     how often cleanup() was called on the context
\*   agent        the agent run_open_horizon_agent selected
\*   tool_result  the dict of the orchestrator's direct tool call
\*   response     the value returned to the caller
\*   exception    str(e) of the exception that reached the caller
\*   http         the HTTP response of the endpoint that made the call

NewCall(entry, args, project_id, deps) ==
    [ entry |-> entry,
      args |-> args,
      project_id |-> project_id,
      deps |-> deps,
      pc |-> "start",
      result |-> None,
      agent_tool_calls |-> 0,
      persist_attempts |-> 0,
      writes |-> [projects |-> 0, partner_searches |-> 0, application_sections |-> 0],
      released |-> [supabase |-> 0, partner_api |-> 0],
      cleanups |-> 0,
      agent |-> None,
      tool_result |-> None,
      response |-> None,
      exception |-> None,
      http |-> None ]

\* one call of an orchestrator, or one direct call of a tool function
Init ==
    \/ \E entry \in Orchestrators, pid \in ProjectIds :
           \E args \in ArgsOf(tool_of(entry)) :
               call = [c \in {1} |-> NewCall(entry, args, pid, None)]
    \/ \E entry \in Tools, pid \in ProjectIds :
           \E args \in ArgsOf(entry), deps \in {None, Some(from_settings(pid))} :
               call = [c \in {1} |-> NewCall(entry, args, pid, deps)]

\* two calls of one orchestrator with the same request and identifiers
InitPair ==
    \E entry \in Orchestrators, pid \in ProjectIds :
        \E args \in ArgsOf(tool_of(entry)) :
            call = [c \in {1, 2} |-> NewCall(entry, args, pid, None)]

\* two orchestrator calls, each with its own request and project_id; the call
\* numbers are interchangeable, so the first entry point is not after the second
InitConcurrent ==
    \E i \in 1..Len(OrchestratorOrder) :
        \E j \in i..Len(OrchestratorOrder) :
            LET e1 == OrchestratorOrder[i]
                e2 == OrchestratorOrder[j]
            IN  \E a1 \in ConcurrentArgsOf(tool_of(e1)),
                   a2 \in ConcurrentArgsOf(tool_of(e2)) :
                    call = [c \in {1, 2} |->
                               IF c = 1
                               THEN NewCall(e1, a1, ConcurrentProjectIds[1], None)
                               ELSE NewCall(e2, a2, ConcurrentProjectIds[2], None)]

\* one direct call of brainstorm_project_ideas
InitBrainstorm ==
    \E ic \in InitialConcepts, fp \in FocusPreferences, oc \in OrganizationContexts,
       pid \in ProjectIds :
        \E deps \in {None, Some(from_settings(pid))} :
            call = [c \in {1} |->
                       NewCall("brainstorm_project_ideas",
                               [initial_concept |-> ic, focus_preference |-> fp,
                                organization_context |-> oc],
                               pid, deps)]

\* one direct call of discover_erasmus_partners
InitPartner ==
    \E pf \in ProjectFocuses, rc \in RequiredCountries, ea \in ExpertiseAreas,
       pid \in ProjectIds :
        \E deps \in {None, Some(from_settings(pid))} :
            call = [c \in {1} |->
                       NewCall("discover_erasmus_partners",
                               [project_focus |-> pf, required_countries |-> rc,
                                expertise_areas |-> ea],
                               pid, deps)]

\* one direct call of brainstorm_project_ideas or of discover_erasmus_partners
InitTools == InitBrainstorm \/ InitPartner

\* one direct call of generate_application_section
InitSection ==
    \E st \in SectionTypes, pc \in ProjectContexts, wl \in WordLimits :
        call = [c \in {1} |->
                   NewCall("generate_application_section",
                           [section_type |-> st, project_context |-> pc, word_limit |-> wl],
                           None, Some(from_settings(None)))]

----------------------------------------------------------------------------
\* The steps of an orchestrator (agent.py 88-244).

\* the call record after a tool ran with the given database outcome
AfterTool(c, tool, success, outcome) ==
    [ call[c] EXCEPT
        !.deps = deps_after_persist(call[c].deps, success, outcome),
        !.persist_attempts = @ + (IF persists(call[c].deps, success) THEN 1 ELSE 0),
        !.writes[collection_of(tool)] =
            @ + (IF write_attempted(call[c].deps, success, outcome) THEN 1 ELSE 0) ]

\* a start that keeps the dependency context in one place shared by the calls:
\* the new context replaces the context of every call in flight
RunStartShared(c) ==
    /\ call[c].entry \in Orchestrators
    /\ call[c].pc = "start"
    /\ \/ call' = [d \in DOMAIN call |->
                       IF d = c
                       THEN [call[d] EXCEPT
                                !.deps = Some(from_settings(call[c].project_id)),
                                !.pc = "agent"]
                       ELSE IF call[d].pc \in {"agent", "llm", "tool", "cleanup"}
                            THEN [call[d] EXCEPT
                                     !.deps = Some(from_settings(call[c].project_id))]
                            ELSE call[d]]
       \/ call' = [call EXCEPT ![c].exception = Some(settings_error),
                               ![c].pc = "raised"]

\* agent.py 94-98, 146-149, 198-201: OpenHorizonDependencies.from_settings, before
\* the try statement; load_settings() (dependencies.py 46) returns or raises
RunStart(c) ==
    /\ call[c].entry \in Orchestrators
    /\ call[c].pc = "start"
    /\ \/ call' = [call EXCEPT ![c].deps = Some(from_settings(call[c].project_id)),
                               ![c].pc = "agent"]
       \/ call' = [call EXCEPT ![c].exception = Some(settings_error),
                               ![c].pc = "raised"]

\* prompts.py 113-125: get_session_context looks the project up when there is a
\* project_id, and swallows the exception of the lookup
deps_after_session_context(deps, outcome) ==
    IF ~IsNone(deps.project_id) /\ Val(deps.project_id) # <<>>
    THEN supabase(deps, outcome)
    ELSE deps

\* agent.py 114, 167, 221: agent.run starts; the system prompt function
\* get_session_context runs (agent.py 83-84)
AgentSystemPrompt(c) ==
    /\ call[c].pc = "agent"
    /\ LET deps == Val(call[c].deps)
       IN  \E outcome \in DbOutcomes(deps) :
               call' = [call EXCEPT
                           ![c].deps = Some(deps_after_session_context(deps, outcome)),
                           ![c].pc = "llm"]

\* agent.py 49-79: during the run the language model calls the agent's tool, with
\* arguments it chooses; the dict the tool returns goes to the language model
AgentToolCall(c) ==
    /\ call[c].pc = "llm"
    /\ call[c].agent_tool_calls < MaxAgentToolCalls
    /\ LET tool == tool_of(call[c].entry)
       IN  \E args \in ArgsOf(tool) :
               LET success == tool_succeeds(tool, call[c].deps, args)
               IN  \E outcome \in outcomes_for(call[c].deps, success) :
                       call' = [call EXCEPT
                                   ![c] = [AfterTool(c, tool, success, outcome) EXCEPT
                                              !.agent_tool_calls = @ + 1]]

\* agent.py 114, 167, 221: agent.run returns the model's text
AgentReturn(c) ==
    /\ call[c].pc = "llm"
    /\ \E text \in LLMTexts :
           call' = [call EXCEPT ![c].result = Some(text), ![c].pc = "tool"]

\* an except branch that returns from the function before the finally block
AgentRaiseWithoutCleanup(c) ==
    /\ call[c].pc \in {"agent", "llm"}
    /\ call' = [call EXCEPT
                   ![c].response = Some(failure_response_of(call[c].entry, agent_error)),
                   ![c].pc = "returned"]

\* agent.py 132-136, 184-188, 238-242: agent.run raises; the except branch builds
\* the response
AgentRaise(c) ==
    /\ call[c].pc \in {"agent", "llm"}
    /\ call' = [call EXCEPT
                   ![c].response = Some(failure_response_of(call[c].entry, agent_error)),
                   ![c].pc = "cleanup"]

\* agent.py 118-130, 170-182, 224-236: the direct tool call and the response
DirectToolCall(c) ==
    /\ call[c].pc = "tool"
    /\ LET tool == tool_of(call[c].entry)
       IN  \E run \in {tool_result_of(tool, call[c].deps, call[c].args)} :
               \E outcome \in outcomes_for(call[c].deps, run.success) :
                   \E result \in {tool_result_after_persist(tool, run, call[c].deps,
                                                             outcome)} :
                       call' = [call EXCEPT
                                   ![c] = [AfterTool(c, tool, run.success, outcome) EXCEPT
                                              !.tool_result = Some(result),
                                              !.response =
                                                  Some(response_of(call[c].entry,
                                                                   Val(call[c].result),
                                                                   result)),
                                              !.pc = "cleanup"]]

\* agent.py 137-138, 189-190, 243-244: finally: await deps.cleanup()
Cleanup(c) ==
    /\ call[c].pc = "cleanup"
    /\ LET deps == Val(call[c].deps)
       IN  call' = [call EXCEPT
                       ![c].deps = Some(cleanup(deps)),
                       ![c].released =
                           [h \in DOMAIN @ |->
                               @[h] + (IF h \in released_by_cleanup(deps) THEN 1 ELSE 0)],
                       ![c].cleanups = @ + 1,
                       ![c].pc = "returned"]

\* a tool function called directly with a RunContext (tools.py 16, 115, 238)
InvokeTool(c) ==
    /\ call[c].entry \in Tools
    /\ call[c].pc = "start"
    /\ \E run \in {tool_result_of(call[c].entry, call[c].deps, call[c].args)} :
           \E outcome \in outcomes_for(call[c].deps, run.success) :
               \E result \in {tool_result_after_persist(call[c].entry, run, call[c].deps,
                                                         outcome)} :
                   call' = [call EXCEPT
                               ![c] = [AfterTool(c, call[c].entry, run.success, outcome) EXCEPT
                                          !.response = Some(result),
                                          !.pc = "returned"]]

NextOrchestrator ==
    \E c \in DOMAIN call :
        \/ RunStart(c)
        \/ AgentSystemPrompt(c)
        \/ AgentToolCall(c)
        \/ AgentReturn(c)
        \/ AgentRaise(c)
        \/ DirectToolCall(c)
        \/ Cleanup(c)

NextTool == \E c \in DOMAIN call : InvokeTool(c)

\* the calls before c have ended
Turn(c) == \A d \in DOMAIN call : d < c => call[d].pc \in {"returned", "raised"}

NextPair ==
    \E c \in DOMAIN call :
        \/ Turn(c) /\ RunStart(c)
        \/ Turn(c) /\ AgentSystemPrompt(c)
        \/ Turn(c) /\ AgentToolCall(c)
        \/ Turn(c) /\ AgentReturn(c)
        \/ Turn(c) /\ AgentRaise(c)
        \/ Turn(c) /\ DirectToolCall(c)
        \/ Turn(c) /\ Cleanup(c)

Next == NextOrchestrator \/ NextTool

\* one call: an orchestrator or a tool
Spec == Init /\ [][Next]_vars

\* two runs of one orchestrator with the same request and identifiers, one after
\* the other: the second call starts when the first has ended
SpecPair == InitPair /\ [][NextPair]_vars

\* the section drafter alone, over all word limits
SpecSection == InitSection /\ [][NextTool]_vars

\* the concept generator alone, over concepts, preferences and organizations
SpecBrainstorm == InitBrainstorm /\ [][NextTool]_vars

\* the partner search alone, over focuses and filters
SpecPartner == InitPartner /\ [][NextTool]_vars

\* the concept generator or the partner search alone
SpecTools == InitTools /\ [][NextTool]_vars

\* two orchestrator calls interleaved at their await points
SpecConcurrent == InitConcurrent /\ [][NextOrchestrator]_vars

\* api.py 95-98, 120-123, 145-148: an endpoint calls its orchestrator with the
\* request and the user id, and no project_id
InitApi ==
    \E entry \in Orchestrators :
        \E args \in ArgsOf(tool_of(entry)) :
            call = [c \in {1} |-> NewCall(entry, args, None, None)]

\* api.py 101, 126, 151: the orchestrator returned; the endpoint returns its
\* response
EndpointReturn(c) ==
    /\ call[c].pc = "returned"
    /\ IsNone(call[c].http)
    /\ call' = [call EXCEPT
                   ![c].http = Some(http_response_of(call[c].entry,
                                                     Val(call[c].response)))]

\* api.py 103-108, 128-133, 153-158: the orchestrator raised; the endpoint raises
\* HTTPException
EndpointRaise(c) ==
    /\ call[c].pc = "raised"
    /\ IsNone(call[c].http)
    /\ call' = [call EXCEPT
                   ![c].http = Some(http_exception_of(call[c].entry,
                                                      Val(call[c].exception)))]

NextApi ==
    \E c \in DOMAIN call :
        \/ RunStart(c)
        \/ AgentSystemPrompt(c)
        \/ AgentToolCall(c)
        \/ AgentReturn(c)
        \/ AgentRaise(c)
        \/ DirectToolCall(c)
        \/ Cleanup(c)
        \/ EndpointReturn(c)
        \/ EndpointRaise(c)

\* one request to a capability endpoint
SpecApi == InitApi /\ [][NextApi]_vars

----------------------------------------------------------------------------
\* A dependency context used on its own (dependencies.py 11-82).

\* dependencies.py 38-55: a context made by from_settings; nothing is released yet
InitContext ==
    \E sid \in SessionIds, uid \in UserIds, pid \in ProjectIds,
       lookup \in Lookups, data \in ProjectRows :
        call = [c \in {1} |->
                   NewCall("OpenHorizonDependencies",
                           [session_id |-> sid, user_id |-> uid,
                            lookup |-> lookup, data |-> data],
                           pid, Some(from_settings_for(sid, uid, pid)))]

\* dependencies.py 57-66: deps.supabase is read; create_client returns a client,
\* which is kept and handed out, or raises
UseSupabase(c) ==
    /\ call[c].entry = "OpenHorizonDependencies"
    /\ \E outcome \in {"ok", "create_client_raises"} :
           LET deps == supabase(Val(call[c].deps), outcome)
           IN  call' = [call EXCEPT
                           ![c].deps = Some(deps),
                           ![c].result = IF deps.supabase_client
                                         THEN Some("supabase") ELSE None]

\* dependencies.py 68-76: deps.partner_api_client is read; the client is handed out
UsePartnerApiClient(c) ==
    /\ call[c].entry = "OpenHorizonDependencies"
    /\ call' = [call EXCEPT
                   ![c].deps = Some(partner_api_client(Val(call[c].deps))),
                   ![c].result = Some("partner_api")]

\* dependencies.py 78-82: await deps.cleanup()
CallCleanup(c) ==
    /\ call[c].entry = "OpenHorizonDependencies"
    /\ call[c].cleanups < MaxCleanups
    /\ LET deps == Val(call[c].deps)
       IN  call' = [call EXCEPT
                       ![c].deps = Some(cleanup(deps)),
                       ![c].released =
                           [h \in DOMAIN @ |->
                               @[h] + (IF h \in released_by_cleanup(deps) THEN 1 ELSE 0)],
                       ![c].cleanups = @ + 1,
                       ![c].result = None,
                       ![c].pc = "released"]

\* prompts.py 106-130: get_session_context(ctx) runs on the context, once; the
\* lookup goes as the call's lookup says
GetSessionContext(c) ==
    /\ call[c].entry = "OpenHorizonDependencies"
    /\ IsNone(call[c].response)
    /\ LET deps == Val(call[c].deps)
       IN  \E outcome \in IF call[c].args.lookup = "ok" THEN {"ok"}
                           ELSE DbOutcomes(deps) \ {"ok"} :
               call' = [call EXCEPT
                           ![c].deps = Some(deps_after_session_context(deps, outcome)),
                           ![c].response =
                               Some(get_session_context(deps, outcome,
                                                        call[c].args.data))]

NextContext ==
    \E c \in DOMAIN call :
        \/ GetSessionContext(c)
        \/ UseSupabase(c)
        \/ UsePartnerApiClient(c)
        \/ CallCleanup(c)

\* one dependency context and the operations of its class, in any order
SpecContext == InitContext /\ [][NextContext]_vars

----------------------------------------------------------------------------
\* The construction of a stored section (models.py 84-98).

\* content and word_count passed to the constructor
SectionContents ==
    { <<>>,
      <<"o","n","e">>,
      <<"t","w","o"," "," ","w","o","r","d","s">>,
      <<
        "T","h","i","s"," ","i","s"," ","a"," ","t","e","s","t"," ","c","o","n","t","e","n","t"," ","w",
        "i","t","h"," ","e","x","a","c","t","l","y"," ","t","e","n"," ","w","o","r","d","s"," ","h","e",
        "r","e",".">>,
      <<
        "T","h","i","s"," ","p","r","o","j","e","c","t"," ","a","d","d","r","e","s","s","e","s"," ","d",
        "i","g","i","t","a","l"," ","s","k","i","l","l","s"," ","g","a","p","s"," ","i","n"," ","E","u",
        "r","o","p","e",".",".",".">> }

WordCounts == 0..MaxWordCount

InitModels ==
    \E content \in SectionContents, word_count \in WordCounts :
        call = [c \in {1} |->
                   NewCall("ApplicationSection",
                           [content |-> content, word_count |-> word_count],
                           None, None)]

\* models.py 84-93: the constructor returns the object
Construct(c) ==
    /\ call[c].entry = "ApplicationSection"
    /\ call[c].pc = "start"
    /\ call' = [call EXCEPT
                   ![c].response =
                       Some(ApplicationSection(<<"t","e","s","t">>,
                                               <<"T","e","s","t"," ","S","e","c","t","i","o","n">>,
                                               call[c].args.content,
                                               call[c].args.word_count)),
                   ![c].pc = "returned"]

NextModels == \E c \in DOMAIN call : Construct(c)

\* one construction of an ApplicationSection
SpecModels == InitModels /\ [][NextModels]_vars

----------------------------------------------------------------------------
\* The steps of run_open_horizon_agent (agent.py 248-290).

\* agent_type as the caller gives it
AgentTypes == {"brainstorming", "planning", "application", "invalid_type"}

InitChat ==
    \E agent_type \in AgentTypes, sid \in SessionIds, uid \in UserIds,
       pid \in ProjectIds :
        call = [c \in {1} |->
                   NewCall("run_open_horizon_agent",
                           [agent_type |-> agent_type, session_id |-> sid,
                            user_id |-> uid],
                           pid, None)]

\* agent.py 267-280: from_settings, before the try statement, returns or raises;
\* then the agent is selected
ChatStart(c) ==
    /\ call[c].entry = "run_open_horizon_agent"
    /\ call[c].pc = "start"
    /\ \/ call' = [call EXCEPT
                       ![c].deps = Some(from_settings_for(call[c].args.session_id,
                                                          call[c].args.user_id,
                                                          call[c].project_id)),
                       ![c].agent = Some(selected_agent(call[c].args.agent_type)),
                       ![c].pc = "agent"]
       \/ call' = [call EXCEPT ![c].exception = Some(settings_error),
                               ![c].pc = "raised"]

\* agent.py 284: during the run the language model calls the tool registered
\* with the selected agent (agent.py 49-79)
ChatToolCall(c) ==
    /\ call[c].entry = "run_open_horizon_agent"
    /\ call[c].pc = "llm"
    /\ call[c].agent_tool_calls < MaxAgentToolCalls
    /\ LET tool == agent_tool(Val(call[c].agent))
       IN  \E args \in ArgsOf(tool) :
               LET success == tool_succeeds(tool, call[c].deps, args)
               IN  \E outcome \in outcomes_for(call[c].deps, success) :
                       call' = [call EXCEPT
                                   ![c] = [AfterTool(c, tool, success, outcome) EXCEPT
                                              !.agent_tool_calls = @ + 1]]

\* agent.py 284-285: the run returns; return result.data
ChatReturn(c) ==
    /\ call[c].entry = "run_open_horizon_agent"
    /\ call[c].pc = "llm"
    /\ \E text \in LLMTexts :
           call' = [call EXCEPT ![c].result = Some(text),
                               ![c].response = Some(text),
                               ![c].pc = "cleanup"]

\* agent.py 286-287: the run raises; the except branch returns the string
ChatRaise(c) ==
    /\ call[c].entry = "run_open_horizon_agent"
    /\ call[c].pc \in {"agent", "llm"}
    /\ call' = [call EXCEPT
                   ![c].response = Some(agent_execution_failed(agent_error)),
                   ![c].pc = "cleanup"]

NextChat ==
    \E c \in DOMAIN call :
        \/ ChatStart(c)
        \/ AgentSystemPrompt(c)
        \/ ChatToolCall(c)
        \/ ChatReturn(c)
        \/ ChatRaise(c)
        \/ Cleanup(c)

\* one call of run_open_horizon_agent
SpecChat == InitChat /\ [][NextChat]_vars

----------------------------------------------------------------------------
\* Properties.

\* call c is a call of an orchestrator that has built its response
HasResponse(c) == call[c].entry \in Orchestrators /\ ~IsNone(call[c].response)

\* call c is a call of generate_application_section that returned a success
SectionSucceeded(c) ==
    /\ call[c].entry = "generate_application_section"
    /\ ~IsNone(call[c].response)
    /\ Val(call[c].response).success

\* the generated_content of the section call c returned
GeneratedContent(c) == Val(Val(call[c].response).generated_content)

\* the content of section call c before the word limit is applied
Template(c) == template_content(call[c].args.section_type, call[c].args.project_context)

\* the number of maximal runs of non-whitespace characters of s
TokenCount(s) ==
    Cardinality({i \in 1..Len(s) : ~IsSpace(s[i]) /\ (i = 1 \/ IsSpace(s[i - 1]))})

\* the elements of a sequence
Range(seq) == {seq[i] : i \in 1..Len(seq)}

\* C1: every response an orchestrator returns has either success true and a null
\* error, or success false and a non-null error
C1_SuccessXorError ==
    \A c \in DOMAIN call :
        HasResponse(c) =>
            LET r == Val(call[c].response)
            IN  \/ r.success /\ IsNone(r.error)
                \/ ~r.success /\ ~IsNone(r.error)

\* of two runs, the first returned a success without an error and the second a
\* failure with an error
C1_Witness ==
    /\ DOMAIN call = {1, 2}
    /\ call[1].pc = "returned" /\ call[2].pc = "returned"
    /\ Val(call[1].response).success /\ IsNone(Val(call[1].response).error)
    /\ ~Val(call[2].response).success /\ ~IsNone(Val(call[2].response).error)

\* C2: no exception of an orchestrator call reaches the caller: whatever step
\* raised, the call ends by returning a failure response with the exception's
\* message, after the dependency context was cleaned up
C2_ExceptionsBecomeResponses ==
    \A c \in DOMAIN call :
        call[c].entry \in Orchestrators =>
            /\ IsNone(call[c].exception)
            /\ call[c].pc # "raised"
            /\ (call[c].pc = "returned" /\ IsNone(call[c].tool_result)) =>
                   /\ ~Val(call[c].response).success
                   /\ ~IsNone(Val(call[c].response).error)
                   /\ EndsWith(Val(Val(call[c].response).error), agent_error)

\* C3: when an orchestrator call has returned, every handle its dependency
\* context constructed has been released exactly once
C3_HandlesReleasedExactlyOnce ==
    \A c \in DOMAIN call :
        (call[c].entry \in Orchestrators /\ call[c].pc = "returned") =>
            \A h \in DOMAIN call[c].released :
                (h \in handles_of(Val(call[c].deps)) \/ call[c].released[h] > 0)
                    => call[c].released[h] = 1

\* C4: two runs of an orchestrator with the same request and identifiers, in
\* both of which the agent turn returned, return the same response, whatever
\* text the language model answered
C4_ResponseIndependentOfModelText ==
    \A c, d \in DOMAIN call :
        ( /\ call[c].entry \in Orchestrators
          /\ call[c].entry = call[d].entry
          /\ call[c].args = call[d].args
          /\ call[c].project_id = call[d].project_id
          /\ call[c].pc = "returned" /\ call[d].pc = "returned"
          /\ ~IsNone(call[c].result) /\ ~IsNone(call[d].result) )
            => call[c].response = call[d].response

\* two runs returned after the model answered different texts, and their
\* responses are the same success
C4_Witness ==
    /\ DOMAIN call = {1, 2}
    /\ call[1].pc = "returned" /\ call[2].pc = "returned"
    /\ ~IsNone(call[1].result) /\ ~IsNone(call[2].result)
    /\ call[1].result # call[2].result
    /\ call[1].response = call[2].response
    /\ Val(call[1].response).success

\* C5: when the direct tool call succeeded, the orchestrator's response carries
\* the payload of the tool: the concepts (at least one), the partners, the
\* generated section
C5_ResponseCarriesPayload ==
    \A c \in DOMAIN call :
        (HasResponse(c) /\ ~IsNone(call[c].tool_result) /\ Val(call[c].tool_result).success)
            => LET r == Val(call[c].response)
                   t == Val(call[c].tool_result)
               IN  CASE call[c].entry = "run_brainstorming_session" ->
                            /\ r.project_concepts = t.project_concepts
                            /\ Len(r.project_concepts) >= 1
                     [] call[c].entry = "run_partner_search" ->
                            r.potential_partners = t.potential_partners
                     [] call[c].entry = "run_application_writing" ->
                            /\ r.generated_content # None
                            /\ r.generated_content = t.generated_content

\* the payload fields of a tool's result or response r are empty or default,
\* search_metadata being one of the given values
PayloadIsDefault(tool, r, metadata) ==
    CASE tool = "brainstorm_project_ideas" ->
             r.project_concepts = <<>> /\ r.next_steps = <<>>
      [] tool = "discover_erasmus_partners" ->
             r.potential_partners = <<>> /\ (\E m \in metadata : r.search_metadata = m)
      [] tool = "generate_application_section" ->
             r.generated_content = None /\ r.alternative_versions = <<>>

\* every failed tool result and every failed orchestrator response has default
\* payload fields, search_metadata being one of the given values
FailuresCarryNoPayload(metadata) ==
    \A c \in DOMAIN call :
        /\ (call[c].entry \in Tools /\ ~IsNone(call[c].response)
                /\ ~Val(call[c].response).success)
               => PayloadIsDefault(call[c].entry, Val(call[c].response), metadata)
        /\ (call[c].entry \in Orchestrators /\ ~IsNone(call[c].tool_result)
                /\ ~Val(call[c].tool_result).success)
               => PayloadIsDefault(tool_of(call[c].entry), Val(call[c].tool_result), metadata)
        /\ (HasResponse(c) /\ ~Val(call[c].response).success)
               => PayloadIsDefault(tool_of(call[c].entry), Val(call[c].response), metadata)

\* the search_metadata of a failed search: no partner found, no country covered
no_partner_metadata == [total_found |-> 0, countries_covered |-> {}]

\* C6 as stated: a tool result or orchestrator response with success false has
\* empty payload fields, search_metadata being the empty dict
C6_FailurePayloadEmpty == FailuresCarryNoPayload({EmptyDict})

\* C6: a tool result or orchestrator response with success false has empty payload
\* fields, where the search_metadata of a partner search is either the empty
\* dict or reports total_found 0 and no countries covered
C6_FailurePayloadEmptyOrZero == FailuresCarryNoPayload({EmptyDict, no_partner_metadata})

\* run_partner_search returned the failure of its tool, with the metadata of a
\* search that found nothing
C6_Witness ==
    \E c \in DOMAIN call :
        /\ call[c].entry = "run_partner_search"
        /\ call[c].pc = "returned"
        /\ ~IsNone(call[c].tool_result)
        /\ ~Val(call[c].response).success
        /\ Val(call[c].response).search_metadata = no_partner_metadata

\* C7 as stated: with word_limit N >= 1 and a template of more than N tokens, the
\* content is the first N tokens and then the token "...", word_count is N+1 and
\* the content ends with "..."; a template of N tokens or fewer is returned as it is
C7_TruncationAddsMarkerToken ==
    \A c \in DOMAIN call :
        (SectionSucceeded(c) /\ ~IsNone(call[c].args.word_limit)
             /\ Val(call[c].args.word_limit) >= 1) =>
            LET N == Val(call[c].args.word_limit)
                tokens == Split(Template(c))
                content == GeneratedContent(c).content
            IN  IF Len(tokens) > N
                THEN /\ Split(content) = SliceTo(tokens, N) \o <<<<".",".",".">>>>
                     /\ GeneratedContent(c).word_count = N + 1
                     /\ EndsWith(content, <<".",".",".">>)
                ELSE content = Template(c)

\* C7: with word_limit N >= 1 and a template of more than N tokens, the content
\* is the first N tokens joined by single spaces with "..." appended to the last
\* of them, so there are N tokens, word_count is N and the content ends with
\* "..."; a template of N tokens or fewer is returned as it is
C7_TruncationKeepsTokenCount ==
    \A c \in DOMAIN call :
        (SectionSucceeded(c) /\ ~IsNone(call[c].args.word_limit)
             /\ Val(call[c].args.word_limit) >= 1) =>
            LET N == Val(call[c].args.word_limit)
                tokens == Split(Template(c))
                content == GeneratedContent(c).content
            IN  IF Len(tokens) > N
                THEN /\ content = Join(<<" ">>, SubSeq(tokens, 1, N - 1)
                                                 \o <<tokens[N] \o <<".",".",".">>>>)
                     /\ TokenCount(content) = N
                     /\ GeneratedContent(c).word_count = N
                     /\ EndsWith(content, <<".",".",".">>)
                ELSE /\ content = Template(c)
                     /\ GeneratedContent(c).word_count = Len(tokens)

\* a Project Description drafted with word_limit 50: 50 words, the last one
\* ending with the marker
C7_Witness ==
    \E c \in DOMAIN call :
        /\ SectionSucceeded(c)
        /\ call[c].args.section_type = <<
            "P","r","o","j","e","c","t"," ","D","e","s","c","r","i","p","t","i","o","n">>
        /\ call[c].args.word_limit = Some(50)
        /\ GeneratedContent(c).word_count = 50
        /\ EndsWith(GeneratedContent(c).content, <<".",".",".">>)
        /\ TokenCount(Template(c)) > 50

\* C8: in every successful result of generate_application_section, word_count
\* is the number of whitespace-separated tokens of the returned content
C8_WordCountIsTokenCount ==
    \A c \in DOMAIN call :
        SectionSucceeded(c) =>
            GeneratedContent(c).word_count = TokenCount(GeneratedContent(c).content)

\* a truncated Impact section whose word_count is the token count of its content
C8_Witness ==
    \E c \in DOMAIN call :
        /\ SectionSucceeded(c)
        /\ call[c].args.section_type = <<"I","m","p","a","c","t">>
        /\ GeneratedContent(c).content # Template(c)
        /\ GeneratedContent(c).word_count = TokenCount(GeneratedContent(c).content)
        /\ GeneratedContent(c).word_count > 1

\* C9: with a word_limit of at least 1, the word_count of the returned content
\* does not exceed word_limit
C9_WordCountWithinLimit ==
    \A c \in DOMAIN call :
        (SectionSucceeded(c) /\ ~IsNone(call[c].args.word_limit)
             /\ Val(call[c].args.word_limit) >= 1)
            => GeneratedContent(c).word_count <= Val(call[c].args.word_limit)

\* a Methodology section longer than its word_limit was cut to exactly the limit
C9_Witness ==
    \E c \in DOMAIN call :
        /\ SectionSucceeded(c)
        /\ call[c].args.section_type = <<"M","e","t","h","o","d","o","l","o","g","y">>
        /\ ~IsNone(call[c].args.word_limit)
        /\ Val(call[c].args.word_limit) >= 1
        /\ TokenCount(Template(c)) > Val(call[c].args.word_limit)
        /\ GeneratedContent(c).word_count = Val(call[c].args.word_limit)

\* the three compliance tests: whether the lower-cased text passes, the strength
\* reported when it does and the issue reported when it does not
ComplianceReportOf(text) ==
    << [ passed |-> has_european_dimension(text),
         strength |-> "Strong European dimension clearly articulated",
         issue |-> "European dimension needs stronger emphasis" ],
       [ passed |-> has_target_group(text),
         strength |-> "Target group clearly defined",
         issue |-> "Target group definition could be clearer" ],
       [ passed |-> has_innovation(text),
         strength |-> "Innovation elements present",
         issue |-> "Consider adding more innovation elements" ] >>

\* C10: the compliance report is made of the three keyword tests on the returned
\* content: each test adds its strength to strength_areas if it passes and its
\* issue to missing_elements if not, nothing else is reported, and
\* compliance_status is true exactly if missing_elements is empty
C10_ComplianceReport ==
    \A c \in DOMAIN call :
        SectionSucceeded(c) =>
            LET gc == GeneratedContent(c)
                details == gc.compliance_details
                report == ComplianceReportOf(Lower(gc.content))
            IN  /\ \A t \in 1..3 :
                       /\ report[t].strength \in Range(details.strength_areas)
                              <=> report[t].passed
                       /\ report[t].issue \in Range(details.missing_elements)
                              <=> ~report[t].passed
                /\ Len(details.strength_areas) + Len(details.missing_elements) = 3
                /\ gc.compliance_status <=> (details.missing_elements = <<>>)

\* a truncated section that fails a test its whole template would have passed,
\* with both strengths and missing elements in the report
C10_Witness ==
    \E c \in DOMAIN call :
        /\ SectionSucceeded(c)
        /\ GeneratedContent(c).content # Template(c)
        /\ ~GeneratedContent(c).compliance_status
        /\ compliance_issues_of(compliance_tests(Template(c))) = <<>>
        /\ Len(GeneratedContent(c).compliance_details.strength_areas) >= 1
        /\ Len(GeneratedContent(c).compliance_details.missing_elements) >= 1

\* the suggestions every compliance report carries
FixedSuggestions ==
    << "Consider adding specific quantifiable outcomes",
       "Include references to relevant EU policies or priorities",
       "Ensure clear link between activities and expected results" >>

\* C11: in every successful result of generate_application_section,
\* improvement_suggestions is the same list of three suggestions, whatever the
\* section type, project context, word limit and content
C11_SuggestionsFixed ==
    \A c \in DOMAIN call :
        SectionSucceeded(c) =>
            LET suggestions == GeneratedContent(c).compliance_details.improvement_suggestions
            IN  /\ Len(suggestions) = 3
                /\ suggestions = FixedSuggestions

\* a compliant, truncated section still carries the three suggestions
C11_Witness ==
    \E c \in DOMAIN call :
        /\ SectionSucceeded(c)
        /\ GeneratedContent(c).compliance_status
        /\ GeneratedContent(c).content # Template(c)
        /\ Len(GeneratedContent(c).compliance_details.improvement_suggestions) = 3

\* C12: every successful result of generate_application_section has exactly two
\* alternative versions: first "technical", the primary content with innovative
\* replaced by cutting-edge and traditional by conventional, then
\* "impact-focused", the primary content with the fixed sentence appended; the
\* word_count of each is the number of whitespace-separated tokens of its content
C12_AlternativeVersions ==
    \A c \in DOMAIN call :
        SectionSucceeded(c) =>
            LET content == GeneratedContent(c).content
                versions == Val(call[c].response).alternative_versions
            IN  /\ Len(versions) = 2
                /\ versions[1].focus = "technical"
                /\ versions[1].content =
                       Replace(Replace(content, <<"i","n","n","o","v","a","t","i","v","e">>,
                                       <<"c","u","t","t","i","n","g","-","e","d","g","e">>),
                               <<"t","r","a","d","i","t","i","o","n","a","l">>,
                               <<"c","o","n","v","e","n","t","i","o","n","a","l">>)
                /\ versions[2].focus = "impact-focused"
                /\ versions[2].content = content \o impact_sentence
                /\ \A v \in 1..2 : versions[v].word_count = TokenCount(versions[v].content)

\* a result whose technical version differs from the primary content and whose
\* impact-focused version has more words than it
C12_Witness ==
    \E c \in DOMAIN call :
        /\ SectionSucceeded(c)
        /\ LET versions == Val(call[c].response).alternative_versions
           IN  /\ versions[1].content # GeneratedContent(c).content
               /\ versions[1].word_count = GeneratedContent(c).word_count
               /\ versions[2].word_count > GeneratedContent(c).word_count

\* call c is a call of brainstorm_project_ideas, with a dependency context, that
\* has returned
BrainstormReturned(c) ==
    /\ call[c].entry = "brainstorm_project_ideas"
    /\ ~IsNone(call[c].deps)
    /\ ~IsNone(call[c].response)

\* the focus areas of the concepts call c returned, in order
FocusAreas(c) ==
    LET concepts == Val(call[c].response).project_concepts
    IN  [i \in 1..Len(concepts) |-> concepts[i].focus_area]

\* the keyword families in the order of their checks: the focus area of the
\* family's concept, the focus_preference naming it and its keywords
KeywordFamilies ==
    << [ focus_area |-> "Digital Transformation",
         preference |-> <<
            "D","i","g","i","t","a","l"," ","T","r","a","n","s","f","o","r","m","a","t","i","o","n">>,
         keywords |-> {<<"d","i","g","i","t","a","l">>} ],
       [ focus_area |-> "Green Transition",
         preference |-> <<"G","r","e","e","n"," ","T","r","a","n","s","i","t","i","o","n">>,
         keywords |-> {<<"g","r","e","e","n">>, <<"e","n","v","i","r","o","n","m","e","n","t">>} ],
       [ focus_area |-> "Inclusion and Diversity",
         preference |-> <<
            "I","n","c","l","u","s","i","o","n"," ","a","n","d"," ","D","i","v","e","r","s","i","t","y">>,
         keywords |-> {<<"i","n","c","l","u","s","i","o","n">>, <<"d","i","v","e","r","s","i","t","y">>} ] >>

\* a keyword of family f occurs in the initial concept of call c, in any case
KeywordMatches(c, f) ==
    \E w \in KeywordFamilies[f].keywords : Contains(w, Lower(call[c].args.initial_concept))

\* the focus_preference of call c is the focus area of family f
PreferenceMatches(c, f) ==
    call[c].args.focus_preference = Some(KeywordFamilies[f].preference)

\* C13: brainstorm_project_ideas, given a dependency context, returns
\* success=true with at least one concept and no error, with or without a project
\* identifier and whatever happened to the database write; when neither a keyword
\* nor the focus preference selects a family, the result is exactly the default
\* concept (Participation, feasibility_score 6)
C13_BrainstormAlwaysSucceeds ==
    \A c \in DOMAIN call :
        BrainstormReturned(c) =>
            LET r == Val(call[c].response)
            IN  /\ r.success
                /\ IsNone(r.error)
                /\ Len(r.project_concepts) >= 1
                /\ (\A f \in 1..3 : ~KeywordMatches(c, f) /\ ~PreferenceMatches(c, f))
                       => /\ Len(r.project_concepts) = 1
                          /\ r.project_concepts[1].focus_area = "Participation"
                          /\ r.project_concepts[1].feasibility_score = 6

\* a call for a project whose database client could not be created returned the
\* default concept alone
C13_Witness ==
    \E c \in DOMAIN call :
        /\ BrainstormReturned(c)
        /\ ~IsNone(call[c].project_id)
        /\ ~Val(call[c].deps).supabase_client
        /\ call[c].args.focus_preference = None
        /\ Val(call[c].response).success
        /\ FocusAreas(c) = <<"Participation">>

\* C14: every family whose keyword occurs in the initial concept contributes
\* exactly one concept, the concepts come in the order digital, green, inclusion
\* (so a concept with "digital" and "green" gives a Digital Transformation
\* concept followed by a Green Transition concept), and the default
\* Participation concept appears only alone
C14_OneConceptPerFamilyInOrder ==
    \A c \in DOMAIN call :
        BrainstormReturned(c) =>
            LET foci == FocusAreas(c)
                At(f) == {i \in 1..Len(foci) : foci[i] = KeywordFamilies[f].focus_area}
            IN  /\ \A f \in 1..3 :
                       /\ Cardinality(At(f)) <= 1
                       /\ KeywordMatches(c, f) => Cardinality(At(f)) = 1
                /\ \A f, g \in 1..3 :
                       f < g => \A i \in At(f), j \in At(g) : i < j
                /\ (KeywordMatches(c, 1) /\ KeywordMatches(c, 2))
                       => /\ Len(foci) >= 2
                          /\ foci[1] = "Digital Transformation"
                          /\ foci[2] = "Green Transition"
                /\ (\E i \in 1..Len(foci) : foci[i] = "Participation")
                       => foci = <<"Participation">>
                /\ \A i \in 1..Len(foci) :
                       foci[i] = "Participation" \/ \E f \in 1..3 : i \in At(f)

\* "Digital and green youth work" gave a Digital Transformation concept and then
\* a Green Transition concept
C14_Witness ==
    \E c \in DOMAIN call :
        /\ BrainstormReturned(c)
        /\ call[c].args.initial_concept = <<
            "D","i","g","i","t","a","l"," ","a","n","d"," ","g","r","e","e","n"," ","y","o","u","t","h"," ",
            "w","o","r","k">>
        /\ FocusAreas(c) = <<"Digital Transformation", "Green Transition">>

\* C15: a focus_preference equal to the focus area of a keyword family makes
\* brainstorm_project_ideas emit that family's concept, even when the initial
\* concept has none of the family's keywords; the Digital Transformation concept
\* has feasibility_score 8
C15_PreferenceSelectsFamily ==
    \A c \in DOMAIN call :
        BrainstormReturned(c) =>
            \A f \in 1..3 :
                PreferenceMatches(c, f) =>
                    \E i \in 1..Len(Val(call[c].response).project_concepts) :
                        LET concept == Val(call[c].response).project_concepts[i]
                        IN  /\ concept.focus_area = KeywordFamilies[f].focus_area
                            /\ (f = 1 => concept.feasibility_score = 8)

\* call c is a call of discover_erasmus_partners, with a dependency context, that
\* has returned
PartnerReturned(c) ==
    /\ call[c].entry = "discover_erasmus_partners"
    /\ ~IsNone(call[c].deps)
    /\ ~IsNone(call[c].response)

\* the names of the partners in a list
NamesOf(partners) == {partners[i].name : i \in 1..Len(partners)}

\* the project focus of call c is "Digital Skills"
FocusIsDigitalSkills(c) ==
    call[c].args.project_focus =
    <<"D","i","g","i","t","a","l"," ","S","k","i","l","l","s">>

\* the country is Germany
IsGermany(country) ==
    country =
    <<"G","e","r","m","a","n","y">>

\* C16: a partner search without filters succeeds and returns every candidate of
\* the pool of four; with project_focus "Digital Skills" the Digital Youth
\* Foundation (Germany) is among them with compatibility_score 10
C16_UnfilteredSearchReturnsPool ==
    \A c \in DOMAIN call :
        (PartnerReturned(c) /\ IsNone(call[c].args.required_countries)
             /\ IsNone(call[c].args.expertise_areas)) =>
            LET r == Val(call[c].response)
            IN  /\ r.success
                /\ Len(r.potential_partners) = 4
                /\ NamesOf(r.potential_partners) = NamesOf(mock_partners)
                /\ FocusIsDigitalSkills(c) =>
                       \E i \in 1..Len(r.potential_partners) :
                           /\ r.potential_partners[i].name = "Digital Youth Foundation"
                           /\ IsGermany(r.potential_partners[i].country)
                           /\ r.potential_partners[i].compatibility_score = 10

\* partner p has its country among the required countries, when they are given
InRequiredCountries(p, required_countries) ==
    ~IsNone(required_countries) =>
        \E i \in 1..Len(Val(required_countries)) : Val(required_countries)[i] = p.country

\* partner p has a tag equal, in any case, to a requested expertise area, when
\* expertise areas are given and not empty
HasRequestedExpertise(p, expertise_areas) ==
    (~IsNone(expertise_areas) /\ Val(expertise_areas) # <<>>) =>
        \E i \in 1..Len(Val(expertise_areas)), j \in 1..Len(p.expertise_areas) :
            Lower(Val(expertise_areas)[i]) = Lower(p.expertise_areas[j])

ScoresReturned(c) ==
    LET r == Val(call[c].response)
    IN  CASE call[c].entry = "brainstorm_project_ideas" ->
                 {r.project_concepts[i].feasibility_score : i \in 1..Len(r.project_concepts)}
          [] call[c].entry = "discover_erasmus_partners" ->
                 {r.potential_partners[i].compatibility_score :
                      i \in 1..Len(r.potential_partners)}
          [] OTHER -> {}

ExcludesEveryCandidate(c) ==
    call[c].args.required_countries = Some(<<
    <<"N","o","n","e","x","i","s","t","e","n","t","C","o","u","n","t","r","y">>
    >>)

\* C19: a partner search whose filters exclude every candidate returns
\* success=true with no partners, total_found 0 and no countries covered; in
\* every successful result total_found is the number of returned partners and
\* countries_covered the set of their countries
C19_EmptyResultIsSuccess ==
    \A c \in DOMAIN call :
        PartnerReturned(c) =>
            LET r == Val(call[c].response)
            IN  /\ ExcludesEveryCandidate(c) =>
                       /\ r.success
                       /\ r.potential_partners = <<>>
                       /\ r.search_metadata.total_found = 0
                       /\ r.search_metadata.countries_covered = {}
                /\ r.success =>
                       /\ r.search_metadata.total_found = Len(r.potential_partners)
                       /\ r.search_metadata.countries_covered =
                              {r.potential_partners[i].country :
                                   i \in 1..Len(r.potential_partners)}

\* the responses call c can return when it is the only call: the failure response
\* of its entry point, or the response built from the result of its tool for its
\* own request and a context of its own
ResponsesAlone(c) ==
    LET entry == call[c].entry
        results == {tool_result_of(tool_of(entry),
                                   Some(from_settings(call[c].project_id)), call[c].args)}
    IN  {failure_response_of(entry, agent_error)}
            \cup {response_of(entry, text, result) : text \in LLMTexts, result \in results}

\* a step of one call leaves the record of every other call as it was: its
\* context, its handles, its writes and its response
StepOfOneCall ==
    \E c \in DOMAIN call : \A d \in DOMAIN call \ {c} : call'[d] = call[d]

\* after the step every context a call holds was made for that call's project_id
ContextsOwned ==
    \A c \in DOMAIN call :
        ~IsNone(call'[c].deps) => Val(call'[c].deps).project_id = call[c].project_id

\* a response built in the step is one the call returns when run alone
ResponseAsAlone ==
    \A c \in DOMAIN call :
        (IsNone(call[c].response) /\ ~IsNone(call'[c].response)) =>
            Val(call'[c].response) \in ResponsesAlone(c)

\* C20: when two orchestrator calls are interleaved at their await points, every
\* step changes the state of one call only, every call holds a context made for
\* its own project_id, and every call returns a response it returns when run alone
C20_ConcurrentCallsIndependent ==
    [][StepOfOneCall /\ ContextsOwned /\ ResponseAsAlone]_vars

\* both calls have built their responses and neither has released its context yet
C20_Witness ==
    /\ \A c \in DOMAIN call : call[c].pc = "cleanup" /\ ~IsNone(call[c].response)
    /\ call[1].entry # call[2].entry
    /\ Val(call[1].deps).project_id # Val(call[2].deps).project_id
    /\ Val(call[1].response).success # Val(call[2].response).success

\* the capability named in the detail of a failed request to the endpoint
CapabilityFailed(entry) ==
    CASE entry = "run_brainstorming_session" ->
             <<
            "B","r","a","i","n","s","t","o","r","m","i","n","g"," ","s","e","s","s","i","o","n"," ","f","a",
            "i","l","e","d",":"," ">>
      [] entry = "run_partner_search" ->
             <<"P","a","r","t","n","e","r"," ","s","e","a","r","c","h"," ","f","a","i","l","e","d",":"," ">>
      [] entry = "run_application_writing" ->
             <<
            "C","o","n","t","e","n","t"," ","g","e","n","e","r","a","t","i","o","n"," ","f","a","i","l","e",
            "d",":"," ">>

\* the capability of call c failed: the orchestrator raised, or it returned a
\* response with success=false
CapabilityFailedIn(c) ==
    \/ ~IsNone(call[c].exception)
    \/ ~IsNone(call[c].response) /\ ~Val(call[c].response).success

\* C21: a request to a capability endpoint whose capability fails is not answered
\* with a 2xx status: the status is outside 200..299 and the body carries the
\* detail "<Capability> failed: <message>"
C21_FailureIsNotAnswered2xx ==
    \A c \in DOMAIN call :
        (~IsNone(call[c].http) /\ CapabilityFailedIn(c)) =>
            LET http == Val(call[c].http)
                prefix == CapabilityFailed(call[c].entry)
            IN  /\ http.status_code \notin 200..299
                /\ ~IsNone(http.detail)
                /\ Len(Val(http.detail)) >= Len(prefix)
                /\ SubSeq(Val(http.detail), 1, Len(prefix)) = prefix

\* C22: after cleanup() has been called on a dependency context, no access to
\* supabase or partner_api_client on that context hands out a client
C22_NoClientAfterCleanup ==
    \A c \in DOMAIN call :
        (call[c].entry = "OpenHorizonDependencies" /\ call[c].pc = "released") =>
            IsNone(call[c].result)

\* C23: an ApplicationSection constructed with non-empty content has a word_count
\* equal to the number of whitespace-separated tokens of content, whatever
\* word_count was passed
C23_WordCountRecomputed ==
    \A c \in DOMAIN call :
        (/\ call[c].entry = "ApplicationSection"
         /\ ~IsNone(call[c].response)
         /\ call[c].args.content # <<>>) =>
            Val(call[c].response).word_count = Len(Split(Val(call[c].response).content))

\* the tool that ran in call c, and the dict it returned
ToolOf(c) == IF call[c].entry \in Tools THEN call[c].entry ELSE tool_of(call[c].entry)

ToolDictOf(c) == IF call[c].entry \in Tools THEN call[c].response ELSE call[c].tool_result

\* the dict the tool of call c returns for the same arguments and context when the
\* store works
ResultWithWorkingStore(c) ==
    tool_result_after_persist(ToolOf(c),
                              tool_result_of(ToolOf(c), call[c].deps, call[c].args),
                              call[c].deps, "ok")

\* call c ran a generator of the three
RanGenerator(c) ==
    /\ call[c].entry \in Tools \cup Orchestrators
    /\ ~IsNone(ToolDictOf(c))

\* C24: whatever the database did during the persistence write, the dict a
\* generator returns is the dict it returns for the same arguments and context
\* with a working store, success included
C24_PersistenceFailureInvisible ==
    \A c \in DOMAIN call :
        RanGenerator(c) => Val(ToolDictOf(c)) = ResultWithWorkingStore(c)

\* a generator returned success although create_client raised in its persistence
\* block: there is a project_id and the context still has no database client
C24_Witness ==
    \E c \in DOMAIN call :
        /\ call[c].entry \in Tools
        /\ RanGenerator(c)
        /\ Val(ToolDictOf(c)).success
        /\ persists(call[c].deps, TRUE)
        /\ ~Val(call[c].deps).supabase_client

\* call c is a direct call of a generator, with a dependency context, that has
\* returned
GeneratorReturned(c) ==
    /\ call[c].entry \in Tools
    /\ ~IsNone(call[c].deps)
    /\ ~IsNone(call[c].response)

\* the context of call c carries a project identifier
HasProjectId(c) ==
    /\ ~IsNone(Val(call[c].deps).project_id)
    /\ Val(Val(call[c].deps).project_id) # <<>>

\* the arguments of call c are values of the declared types: no value of the
\* section drafter's project_context is None
ArgumentsWellTyped(c) ==
    call[c].entry = "generate_application_section" =>
        \A k \in DOMAIN call[c].args.project_context :
            ~IsNone(call[c].args.project_context[k])

\* C25: a generator called with well-typed arguments and a project identifier
\* attempts one persistence write, to its own collection and to no other: it
\* enters its persistence block once, and calls execute() once on its own
\* collection unless the database client could not be created; called without a
\* project identifier it creates no database client and writes nothing
C25_OneWriteToOwnCollection ==
    \A c \in DOMAIN call :
        (GeneratorReturned(c) /\ ArgumentsWellTyped(c)) =>
            LET own == collection_of(call[c].entry)
                writes == call[c].writes
            IN  /\ \A coll \in DOMAIN writes \ {own} : writes[coll] = 0
                /\ HasProjectId(c) =>
                       /\ call[c].persist_attempts = 1
                       /\ writes[own] <= 1
                       /\ writes[own] = 1 \/ ~Val(call[c].deps).supabase_client
                /\ ~HasProjectId(c) =>
                       /\ call[c].persist_attempts = 0
                       /\ writes[own] = 0
                       /\ ~Val(call[c].deps).supabase_client

\* the separator of the parts
PartSeparator ==
    <<" ","|"," ">>

\* the message of the part that stands for a failed lookup
UnavailablePart ==
    <<
      "P","r","o","j","e","c","t"," ","c","o","n","t","e","x","t"," ","u","n","a","v","a","i","l","a",
      "b","l","e",":"," ","D","a","t","a","b","a","s","e"," ","e","r","r","o","r">>

\* the part for an identifier that is present, no part for one that is absent
IdPart(label, id) == IF ~IsNone(id) /\ Val(id) # <<>> THEN <<label \o Val(id)>> ELSE <<>>

\* the parts after the project id part: the unavailable part when the lookup
\* raised, the title, status and focus area when it found a row, else none
DetailParts(c) ==
    IF call[c].args.lookup = "raises" THEN <<UnavailablePart>>
    ELSE IF IsNone(call[c].args.data) THEN <<>>
    ELSE LET row == Val(call[c].args.data)
             Field(k) == IF k \in DOMAIN row THEN Val(row[k]) ELSE <<"U", "n", "k", "n", "o", "w", "n">>
         IN  << <<"P", "r", "o", "j", "e", "c", "t", " ", "t", "i", "t", "l", "e", ":", " ">>
                    \o Field("title"),
                <<"P", "r", "o", "j", "e", "c", "t", " ", "s", "t", "a", "t", "u", "s", ":", " ">>
                    \o Field("status"),
                <<"F", "o", "c", "u", "s", " ", "a", "r", "e", "a", ":", " ">>
                    \o Field("focus_area") >>

\* the parts of the context of call c, in the order user, project, session
ExpectedParts(c) ==
    LET project == IdPart(<<"C", "u", "r", "r", "e", "n", "t", " ", "p", "r", "o", "j", "e", "c", "t", ":", " ">>,
                          call[c].project_id)
    IN  IdPart(<<"U", "s", "e", "r", " ", "I", "D", ":", " ">>, call[c].args.user_id)
            \o project \o (IF project # <<>> THEN DetailParts(c) ELSE <<>>)
            \o IdPart(<<"S", "e", "s", "s", "i", "o", "n", " ", "I", "D", ":", " ">>,
                      call[c].args.session_id)

\* get_session_context has returned in call c
SessionContextReturned(c) ==
    call[c].entry = "OpenHorizonDependencies" /\ ~IsNone(call[c].response)

AgentNamedFor(agent_type) ==
    IF agent_type \in {"brainstorming", "planning", "application"}
    THEN <<agent_type \o "_agent">>
    ELSE <<"brainstorming_agent">>

\* the text starts with "Agent execution failed:"
StartsWithAgentExecutionFailed(text) ==
    LET prefix ==
            <<"A","g","e","n","t"," ","e","x","e","c","u","t","i","o","n"," ","f","a","i","l","e","d",":">>
    IN  Len(text) >= Len(prefix) /\ SubSeq(text, 1, Len(prefix)) = prefix

\* call c is a call of run_open_horizon_agent that made its context
ChatStarted(c) ==
    call[c].entry = "run_open_horizon_agent" /\ ~IsNone(call[c].deps)

\* C27: run_open_horizon_agent runs the agent named by agent_type, the
\* brainstorming agent for any other value; when the run raises it returns a
\* string that starts with "Agent execution failed:", when the run returns it
\* returns the run's text; cleanup() has not run while the call is in the try
\* statement and has run once when the call has returned
C27_ChatSelectsAgentAndCleansUp ==
    \A c \in DOMAIN call :
        ChatStarted(c) =>
            /\ call[c].agent = AgentNamedFor(call[c].args.agent_type)
            /\ call[c].pc # "returned" => call[c].cleanups = 0
            /\ call[c].pc = "returned" =>
                   /\ call[c].cleanups = 1
                   /\ ~IsNone(call[c].response)
                   /\ IF IsNone(call[c].result)
                      THEN StartsWithAgentExecutionFailed(Val(call[c].response))
                      ELSE call[c].response = call[c].result

\* a call with an agent_type outside the three has returned the failure string
C27_Witness ==
    \E c \in DOMAIN call :
        /\ ChatStarted(c)
        /\ call[c].args.agent_type = "invalid_type"
        /\ call[c].agent = Some("brainstorming_agent")
        /\ call[c].pc = "returned"
        /\ IsNone(call[c].result)
        /\ call[c].cleanups = 1

\* the start of the error of an orchestrator's failure response
OrchestratorFailed(entry) ==
    CASE entry = "run_brainstorming_session" ->
             <<
            "B","r","a","i","n","s","t","o","r","m","i","n","g"," ","s","e","s","s","i","o","n"," ","f","a",
            "i","l","e","d",":"," ">>
      [] entry = "run_partner_search" ->
             <<"P","a","r","t","n","e","r"," ","s","e","a","r","c","h"," ","f","a","i","l","e","d",":"," ">>
      [] entry = "run_application_writing" ->
             <<
            "A","p","p","l","i","c","a","t","i","o","n"," ","w","r","i","t","i","n","g"," ","f","a","i","l",
            "e","d",":"," ">>

\* the agent turn of orchestrator call c raised: the call built its response
\* although agent.run returned nothing
AgentTurnRaised(c) ==
    /\ call[c].entry \in Orchestrators
    /\ ~IsNone(call[c].response)
    /\ IsNone(call[c].result)

\* C28: an orchestrator calls its tool function directly only after the agent
\* turn has returned; when the agent turn raises the tool is never called
\* directly, the response has success=false and the error
\* "<capability> failed: <message>", and cleanup() has run once when the call
\* has returned
C28_ToolCallOnlyAfterAgentTurn ==
    \A c \in DOMAIN call :
        call[c].entry \in Orchestrators =>
            /\ ~IsNone(call[c].tool_result) => ~IsNone(call[c].result)
            /\ AgentTurnRaised(c) =>
                   /\ IsNone(call[c].tool_result)
                   /\ ~Val(call[c].response).success
                   /\ Val(call[c].response).error
                          = Some(OrchestratorFailed(call[c].entry) \o agent_error)
                   /\ call[c].pc \in {"cleanup", "returned"}
                   /\ call[c].pc = "returned" => call[c].cleanups = 1

\* the agent turn raised after the language model had called the agent's tool,
\* and the call has returned
C28_Witness ==
    \E c \in DOMAIN call :
        /\ AgentTurnRaised(c)
        /\ call[c].agent_tool_calls = 1
        /\ call[c].pc = "returned"

\* C29: one orchestrator call made with a project identifier causes at most one
\* persistence write to the collection of its capability, also when the language
\* model called the agent's registered tool during the turn
C29_AtMostOneWritePerCall ==
    \A c \in DOMAIN call :
        (call[c].entry \in Orchestrators /\ ~IsNone(call[c].project_id)) =>
            call[c].writes[collection_of(tool_of(call[c].entry))] <= 1

\* the three full stops of the truncation marker
TruncationMarker ==
    <<".",".",".">>

====
